---- MODULE Spec2Model ----
(***************************************************************************)
(* Model of the libosmium multipolygon area assembler                      *)
(* (include/osmium/area/assembler.hpp) and of the helper types it uses     *)
(* (NodeRefSegment, SegmentList, ProtoRing).                               *)
(***************************************************************************)
EXTENDS Integers, Sequences, FiniteSets, TLC

(***************************************************************************)
(* Bounds of the model.                                                    *)
(***************************************************************************)
\* largest number of member ways of a relation drawn from the way catalogue
MaxMembers == 4
\* source ids of the id family range over -MaxId .. MaxId
MaxId == 2
\* largest number of copies of one way among the members of a relation
MaxCopies == 3

(***************************************************************************)
(* Sequence helpers.                                                       *)
(***************************************************************************)
Range(s) == {s[i] : i \in 1..Len(s)}

SetMin(S) == CHOOSE x \in S : \A y \in S : x <= y

SetMax(S) == CHOOSE x \in S : \A y \in S : x >= y

Abs(n) == IF n < 0 THEN -n ELSE n

\* the sequence s without its elements lo..hi (erase of a half-open range)
RemoveRange(s, lo, hi) == SubSeq(s, 1, lo - 1) \o SubSeq(s, hi + 1, Len(s))

ReverseSeq(s) == [i \in 1..Len(s) |-> s[Len(s) + 1 - i]]

RECURSIVE Flatten(_)
Flatten(ss) == IF ss = <<>> THEN <<>> ELSE Head(ss) \o Flatten(Tail(ss))

\* C++ integer division truncates toward zero
TruncDiv(a, b) ==
    IF b = 0 THEN 0
    ELSE IF (a >= 0) = (b > 0) THEN Abs(a) \div Abs(b) ELSE -(Abs(a) \div Abs(b))

(***************************************************************************)
(* osmium::Location and osmium::NodeRef.                                   *)
(* A location is <<x, y>>; a node ref is [ref, loc].                       *)
(***************************************************************************)
LocLess(a, b) == (a[1] = b[1] /\ a[2] < b[2]) \/ a[1] < b[1]

NodeRef(r, l) == [ref |-> r, loc |-> l]

(***************************************************************************)
(* osmium::area::NodeRefSegment.                                           *)
(***************************************************************************)
\* the constructor puts the smaller location first
NodeRefSegment(nr1, nr2, role, way) ==
    IF LocLess(nr2.loc, nr1.loc)
    THEN [first |-> nr2, second |-> nr1, role |-> role, way |-> way]
    ELSE [first |-> nr1, second |-> nr2, role |-> role, way |-> way]

swap_locations(s) == [s EXCEPT !.first = s.second, !.second = s.first]

role_outer(s) == s.role = "outer"

role_inner(s) == s.role = "inner"

\* operator== of segments: both end points are at the same locations
SegEq(a, b) == a.first.loc = b.first.loc /\ a.second.loc = b.second.loc

\* operator< of segments
SegLess(a, b) ==
    (a.first.loc = b.first.loc /\ LocLess(a.second.loc, b.second.loc))
    \/ LocLess(a.first.loc, b.first.loc)

outside_x_range(s1, s2) == s1.first.loc[1] > s2.second.loc[1]

y_range_overlap(s1, s2) ==
    LET tmin == IF s1.first.loc[2] < s1.second.loc[2] THEN s1.first.loc[2] ELSE s1.second.loc[2]
        tmax == IF s1.first.loc[2] < s1.second.loc[2] THEN s1.second.loc[2] ELSE s1.first.loc[2]
        omin == IF s2.first.loc[2] < s2.second.loc[2] THEN s2.first.loc[2] ELSE s2.second.loc[2]
        omax == IF s2.first.loc[2] < s2.second.loc[2] THEN s2.second.loc[2] ELSE s2.first.loc[2]
    IN ~(tmin > omax \/ omin > tmax)

\* TRUE iff calculate_intersection returns a defined location: the segments
\* share no end point, are not parallel, and meet in a point of both
calculate_intersection(s1, s2) ==
    LET ax == s1.first.loc[1]   ay == s1.first.loc[2]
        bx == s1.second.loc[1]  by == s1.second.loc[2]
        cx == s2.first.loc[1]   cy == s2.first.loc[2]
        dx == s2.second.loc[1]  dy == s2.second.loc[2]
        denom  == (dy - cy) * (bx - ax) - (dx - cx) * (by - ay)
        nume_a == (dx - cx) * (ay - cy) - (dy - cy) * (ax - cx)
        nume_b == (bx - ax) * (ay - cy) - (by - ay) * (ax - cx)
    IN /\ s1.first.loc # s2.first.loc
       /\ s1.first.loc # s2.second.loc
       /\ s1.second.loc # s2.first.loc
       /\ s1.second.loc # s2.second.loc
       /\ denom # 0
       /\ \/ denom > 0 /\ nume_a >= 0 /\ nume_a <= denom /\ nume_b >= 0 /\ nume_b <= denom
          \/ denom < 0 /\ nume_a <= 0 /\ nume_a >= denom /\ nume_b <= 0 /\ nume_b >= denom

\* segment passes to the left of the location (ray to the left at its height)
to_left_of(s, l) ==
    LET lowFirst == s.first.loc[2] <= s.second.loc[2]
        mn == IF lowFirst THEN s.first.loc ELSE s.second.loc
        mx == IF lowFirst THEN s.second.loc ELSE s.first.loc
    IN /\ s.first.loc # l
       /\ s.second.loc # l
       /\ ~(mn[2] >= l[2] \/ mx[2] < l[2] \/ s.first.loc[1] > l[1])
       /\ (mx[1] - mn[1]) * (l[2] - mn[2]) - (mx[2] - mn[2]) * (l[1] - mn[1]) <= 0

(***************************************************************************)
(* osmium::area::detail::SegmentList.                                      *)
(***************************************************************************)
\* segments of one way: one per pair of consecutive nodes with different ids
extract_segments_from_way(way, role) ==
    LET n == Len(way.nodes)
        pairs == [i \in 1..(IF n = 0 THEN 0 ELSE n - 1) |->
                    IF way.nodes[i].ref # way.nodes[i + 1].ref
                    THEN <<NodeRefSegment(way.nodes[i], way.nodes[i + 1], role, way.id)>>
                    ELSE <<>>]
    IN Flatten(pairs)

extract_segments_from_ways(members) ==
    Flatten([i \in 1..Len(members) |->
                extract_segments_from_way(members[i].way, members[i].role)])

\* std::sort leaves the order of equal segments open: "fwd" keeps them in
\* list order, "rev" in reverse list order
TieOrders == {"fwd", "rev"}

RECURSIVE SortSegments(_, _)
SortSegments(s, ties) ==
    IF s = <<>> THEN <<>>
    ELSE LET least == {i \in 1..Len(s) : \A j \in 1..Len(s) : ~SegLess(s[j], s[i])}
             k == IF ties = "fwd" THEN SetMin(least) ELSE SetMax(least)
         IN <<s[k]>> \o SortSegments(RemoveRange(s, k, k), ties)

\* repeatedly erase the first pair of adjacent equal segments
RECURSIVE erase_duplicate_segments(_)
erase_duplicate_segments(s) ==
    LET adj == {i \in 1..(Len(s) - 1) : SegEq(s[i], s[i + 1])}
    IN IF adj = {} THEN s
       ELSE erase_duplicate_segments(RemoveRange(s, SetMin(adj), SetMin(adj) + 1))

(***************************************************************************)
(* osmium::area::detail::ProtoRing.                                        *)
(* A ring is [segments, outer, inner]; inner holds indices into m_rings.   *)
(***************************************************************************)
ProtoRing(segs) == [segments |-> segs, outer |-> TRUE, inner |-> <<>>]

first_segment(ring) == ring.segments[1]

last_segment(ring) == ring.segments[Len(ring.segments)]

closed(ring) == first_segment(ring).first.loc = last_segment(ring).second.loc

\* twice the signed area (shoelace sum over the segments)
RECURSIVE SumSegments(_)
SumSegments(segs) ==
    IF segs = <<>> THEN 0
    ELSE Head(segs).first.loc[1] * Head(segs).second.loc[2]
         - Head(segs).second.loc[1] * Head(segs).first.loc[2]
         + SumSegments(Tail(segs))

sum(ring) == SumSegments(ring.segments)

is_cw(ring) == sum(ring) <= 0

area(ring) == Abs(sum(ring)) \div 2

reverse(ring) ==
    [ring EXCEPT !.segments =
        [i \in 1..Len(ring.segments) |->
            swap_locations(ring.segments[Len(ring.segments) + 1 - i])]]

merge_ring(ring, other) == [ring EXCEPT !.segments = ring.segments \o other.segments]

merge_ring_reverse(ring, other) ==
    [ring EXCEPT !.segments = ring.segments \o reverse(other).segments]

\* the smaller end point of the smallest segment
min_node(ring) ==
    LET segs == ring.segments
        k == SetMin({i \in 1..Len(segs) : \A j \in 1..Len(segs) : ~SegLess(segs[j], segs[i])})
    IN IF LocLess(segs[k].first.loc, segs[k].second.loc) THEN segs[k].first ELSE segs[k].second

contains(ring, segment) ==
    \E i \in 1..Len(ring.segments) :
        LET s == ring.segments[i]
        IN SegEq(s, segment)
           \/ (s.first.ref = segment.second.ref /\ s.second.ref = segment.first.ref)

get_ways(ring) == {ring.segments[i].way : i \in 1..Len(ring.segments)}

\* point-in-polygon test of the first node of the inner ring against the
\* outer ring (crossing number, integer arithmetic)
is_in(inner, outerRing) ==
    LET t == first_segment(inner).first.loc
        segs == outerRing.segments
        n == Len(segs)
        Prev(i) == IF i = 1 THEN n ELSE i - 1
        Crosses(i) ==
            LET pi == segs[i].first.loc
                pj == segs[Prev(i)].first.loc
            IN /\ (pi[2] > t[2]) # (pj[2] > t[2])
               /\ t[1] < TruncDiv((pj[1] - pi[1]) * (t[2] - pi[2]), pj[2] - pi[2]) + pi[1]
    IN Cardinality({i \in 1..n : Crosses(i)}) % 2 = 1

(***************************************************************************)
(* Assembler: problem reports.                                             *)
(***************************************************************************)
\* a call of the problem reporter.  id is the object id (the first node id
\* for a duplicate node), way the way id (the second node id), p1 and p2
\* the locations, other the second segment of an intersection
ProblemReport(type, id, way, p1, p2, other) ==
    [type |-> type, id |-> id, way |-> way, p1 |-> p1, p2 |-> p2, other |-> other]

\* has_same_location: the test itself
has_same_location(nr1, nr2) == nr1.loc = nr2.loc

\* has_same_location: the report made when the locations are the same and
\* the ids differ
DuplicateNodeReport(nr1, nr2) ==
    IF nr1.loc = nr2.loc /\ nr1.ref # nr2.ref
    THEN <<ProblemReport("duplicate_node", nr1.ref, nr2.ref, nr1.loc, <<>>, <<>>)>>
    ELSE <<>>

(***************************************************************************)
(* Assembler::find_intersections.                                          *)
(***************************************************************************)
\* the inner loop left at the first segment that begins right of the
\* first location of list[i] instead of right of its second location
InnerLoopEndTooEarly(list, i, j) ==
    SetMin({k \in j..Len(list) : /\ ~SegEq(list[i], list[k])
                                 /\ list[k].first.loc[1] > list[i].first.loc[1]}
           \cup {Len(list) + 1})

\* the position at which the inner loop over j is left: the first segment
\* from j on that differs from list[i] and lies outside its x range (break),
\* or the end of the list
InnerLoopEnd(list, i, j) ==
    SetMin({k \in j..Len(list) : /\ ~SegEq(list[i], list[k])
                                 /\ outside_x_range(list[k], list[i])}
           \cup {Len(list) + 1})

\* the scan without the call of calculate_intersection: every pair whose
\* x and y ranges overlap is taken for an intersection
RECURSIVE IntersectionScanRangesOnly(_, _, _)
IntersectionScanRangesOnly(list, i, j) ==
    IF i > Len(list) - 1 THEN <<>>
    ELSE Flatten([k \in 1..(InnerLoopEnd(list, i, j) - j) |->
                    LET jj == j + k - 1
                    IN IF ~SegEq(list[i], list[jj]) /\ y_range_overlap(list[i], list[jj])
                       THEN <<(<<i, jj>>)>>
                       ELSE <<>>])
         \o IntersectionScanRangesOnly(list, i + 1, i + 2)

\* the pairs <<i, j>> reported by the scan, in the order of the loops, from
\* the position (i, j) on: the inner loop skips segments equal
\* to list[i] (continue) and ends at InnerLoopEnd
RECURSIVE IntersectionScan(_, _, _)
IntersectionScan(list, i, j) ==
    IF i > Len(list) - 1 THEN <<>>
    ELSE Flatten([k \in 1..(InnerLoopEnd(list, i, j) - j) |->
                    LET jj == j + k - 1
                    IN IF /\ ~SegEq(list[i], list[jj])
                          /\ y_range_overlap(list[i], list[jj])
                          /\ calculate_intersection(list[i], list[jj])
                       THEN <<(<<i, jj>>)>>
                       ELSE <<>>])
         \o IntersectionScan(list, i + 1, i + 2)

IntersectingPairs(list) == IF list = <<>> THEN <<>> ELSE IntersectionScan(list, 1, 2)

\* find_intersections that forgets to set found_intersections
find_intersections_forgotten(list) == FALSE

find_intersections(list) == IntersectingPairs(list) # <<>>

IntersectionReports(list, object_id) ==
    LET pairs == IntersectingPairs(list)
    IN [k \in 1..Len(pairs) |->
           ProblemReport("intersection", object_id, list[pairs[k][1]].way,
                         list[pairs[k][1]].first.loc, list[pairs[k][1]].second.loc,
                         <<list[pairs[k][2]].way, list[pairs[k][2]].first.loc,
                           list[pairs[k][2]].second.loc>>)]

(***************************************************************************)
(* Assembler: ring building.  The operators work on the ring list m_rings  *)
(* and the index i of the ring at hand, and return                         *)
(* [found, rings, idx, reports]: whether the search matched, the new ring  *)
(* list, the new index of the ring at hand, the duplicate-node reports.    *)
(***************************************************************************)
Step(found, rings, idx, reports) ==
    [found |-> found, rings |-> rings, idx |-> idx, reports |-> reports]

has_closed_subring_end(rings, i, segment) ==
    LET segs == rings[i].segments
        n == Len(segs)
        hits == {k \in 2..(n - 1) : has_same_location(segment.second, segs[k].first)}
    IN IF n < 3 \/ hits = {} THEN Step(FALSE, rings, i, <<>>)
       ELSE LET k == SetMin(hits)
                new_ring == ProtoRing(SubSeq(segs, k, n))
            IN Step(TRUE,
                    Append([rings EXCEPT ![i].segments = SubSeq(segs, 1, k - 1)], new_ring),
                    i,
                    DuplicateNodeReport(segment.second, segs[k].first))

has_closed_subring_start(rings, i, segment) ==
    LET segs == rings[i].segments
        n == Len(segs)
        hits == {k \in 2..(n - 1) : has_same_location(segment.first, segs[k].second)}
    IN IF n < 3 \/ hits = {} THEN Step(FALSE, rings, i, <<>>)
       ELSE LET k == SetMin(hits)
                new_ring == ProtoRing(SubSeq(segs, 1, k))
            IN Step(TRUE,
                    Append([rings EXCEPT ![i].segments = SubSeq(segs, k + 1, n)], new_ring),
                    i,
                    DuplicateNodeReport(segment.first, segs[k].second))

\* the ring list without its j-th ring, and where ring i is afterwards
EraseRing(rings, j) == RemoveRange(rings, j, j)

IndexAfterErase(i, j) == IF j < i THEN i - 1 ELSE i

\* possibly_combine_rings_end that does not leave out the closed rings
possibly_combine_rings_end_any(rings, i) ==
    LET nr == last_segment(rings[i]).second
        AtFirst(j) == has_same_location(nr, first_segment(rings[j]).first)
        AtLast(j) == has_same_location(nr, last_segment(rings[j]).second)
        hits == {j \in 1..Len(rings) : j # i /\ (AtFirst(j) \/ AtLast(j))}
    IN IF hits = {} THEN Step(FALSE, rings, i, <<>>)
       ELSE LET j == SetMin(hits)
                merged == IF AtFirst(j) THEN merge_ring(rings[i], rings[j])
                          ELSE merge_ring_reverse(rings[i], rings[j])
                rep == IF AtFirst(j)
                       THEN DuplicateNodeReport(nr, first_segment(rings[j]).first)
                       ELSE DuplicateNodeReport(nr, last_segment(rings[j]).second)
            IN Step(TRUE, EraseRing([rings EXCEPT ![i] = merged], j),
                    IndexAfterErase(i, j), rep)

possibly_combine_rings_end(rings, i) ==
    LET nr == last_segment(rings[i]).second
        AtFirst(j) == has_same_location(nr, first_segment(rings[j]).first)
        AtLast(j) == has_same_location(nr, last_segment(rings[j]).second)
        hits == {j \in 1..Len(rings) : j # i /\ ~closed(rings[j]) /\ (AtFirst(j) \/ AtLast(j))}
    IN IF hits = {} THEN Step(FALSE, rings, i, <<>>)
       ELSE LET j == SetMin(hits)
                merged == IF AtFirst(j) THEN merge_ring(rings[i], rings[j])
                          ELSE merge_ring_reverse(rings[i], rings[j])
                rep == IF AtFirst(j)
                       THEN DuplicateNodeReport(nr, first_segment(rings[j]).first)
                       ELSE DuplicateNodeReport(nr, last_segment(rings[j]).second)
            IN Step(TRUE, EraseRing([rings EXCEPT ![i] = merged], j),
                    IndexAfterErase(i, j), rep)

\* possibly_combine_rings_start without the call of swap_segments
possibly_combine_rings_start_unswapped(rings, i) ==
    LET nr == first_segment(rings[i]).first
        AtLast(j) == has_same_location(nr, last_segment(rings[j]).second)
        AtFirst(j) == has_same_location(nr, first_segment(rings[j]).first)
        hits == {j \in 1..Len(rings) : j # i /\ ~closed(rings[j]) /\ (AtLast(j) \/ AtFirst(j))}
    IN IF hits = {} THEN Step(FALSE, rings, i, <<>>)
       ELSE LET j == SetMin(hits)
                merged == IF AtLast(j)
                          THEN merge_ring(rings[i], rings[j])
                          ELSE merge_ring(reverse(rings[i]), rings[j])
                rep == IF AtLast(j)
                       THEN DuplicateNodeReport(nr, last_segment(rings[j]).second)
                       ELSE DuplicateNodeReport(nr, first_segment(rings[j]).first)
            IN Step(TRUE, EraseRing([rings EXCEPT ![i] = merged], j),
                    IndexAfterErase(i, j), rep)

possibly_combine_rings_start(rings, i) ==
    LET nr == first_segment(rings[i]).first
        AtLast(j) == has_same_location(nr, last_segment(rings[j]).second)
        AtFirst(j) == has_same_location(nr, first_segment(rings[j]).first)
        hits == {j \in 1..Len(rings) : j # i /\ ~closed(rings[j]) /\ (AtLast(j) \/ AtFirst(j))}
    IN IF hits = {} THEN Step(FALSE, rings, i, <<>>)
       ELSE LET j == SetMin(hits)
                \* swap_segments, then merge_ring: the other ring's segments
                \* followed by this ring's
                merged == IF AtLast(j)
                          THEN [rings[i] EXCEPT
                                   !.segments = rings[j].segments \o rings[i].segments]
                          ELSE merge_ring(reverse(rings[i]), rings[j])
                rep == IF AtLast(j)
                       THEN DuplicateNodeReport(nr, last_segment(rings[j]).second)
                       ELSE DuplicateNodeReport(nr, first_segment(rings[j]).first)
            IN Step(TRUE, EraseRing([rings EXCEPT ![i] = merged], j),
                    IndexAfterErase(i, j), rep)

\* check_for_closed_subring that erases the sub-ring from the ring and
\* does not put it into the ring list
SplitAtRepeatedNodeDropping(rings, i, sorted) ==
    LET segs == rings[i].segments
        adj == {k \in 1..(Len(sorted) - 1) :
                    has_same_location(sorted[k].first, sorted[k + 1].first)}
    IN IF adj = {} THEN Step(FALSE, rings, i, <<>>)
       ELSE LET k == SetMin(adj)
                r1 == SetMin({m \in 1..Len(segs) : SegEq(segs[m], sorted[k])})
                r2 == SetMin({m \in 1..Len(segs) : SegEq(segs[m], sorted[k + 1])})
                lo == IF r2 < r1 THEN r2 ELSE r1
                hi == IF r2 < r1 THEN r1 ELSE r2
            IN Step(TRUE,
                    [rings EXCEPT ![i].segments = RemoveRange(segs, lo, hi - 1)],
                    i,
                    DuplicateNodeReport(sorted[k].first, sorted[k + 1].first))

\* check_for_closed_subring after the sort of the copied segments
SplitAtRepeatedNode(rings, i, sorted) ==
    LET segs == rings[i].segments
        adj == {k \in 1..(Len(sorted) - 1) :
                    has_same_location(sorted[k].first, sorted[k + 1].first)}
    IN IF adj = {} THEN Step(FALSE, rings, i, <<>>)
       ELSE LET k == SetMin(adj)
                r1 == SetMin({m \in 1..Len(segs) : SegEq(segs[m], sorted[k])})
                r2 == SetMin({m \in 1..Len(segs) : SegEq(segs[m], sorted[k + 1])})
                lo == IF r2 < r1 THEN r2 ELSE r1
                hi == IF r2 < r1 THEN r1 ELSE r2
                new_ring == ProtoRing(SubSeq(segs, lo, hi - 1))
            IN Step(TRUE,
                    Append([rings EXCEPT ![i].segments = RemoveRange(segs, lo, hi - 1)],
                           new_ring),
                    i,
                    DuplicateNodeReport(sorted[k].first, sorted[k + 1].first))

check_for_closed_subring(rings, i) ==
    SplitAtRepeatedNode(rings, i, SortSegments(rings[i].segments, "fwd"))

\* a step with the reports of the steps before it put in front
After(reports_before, st) == Step(TRUE, st.rings, st.idx, reports_before \o st.reports)

\* combine_rings: check_for_closed_subring if the rings were combined
CombineSubring(comb) ==
    After(comb.reports,
          IF comb.found THEN check_for_closed_subring(comb.rings, comb.idx)
          ELSE Step(FALSE, comb.rings, comb.idx, <<>>))

\* combine_rings: possibly_combine_rings_end / _start after the split
CombineMerge(split, at_end) ==
    After(split.reports,
          CombineSubring(IF at_end THEN possibly_combine_rings_end(split.rings, split.idx)
                         ELSE possibly_combine_rings_start(split.rings, split.idx)))

combine_rings(rings, i, segment, at_end) ==
    CombineMerge(IF at_end
                 THEN has_closed_subring_end(
                          [rings EXCEPT ![i].segments = Append(@, segment)], i, segment)
                 ELSE has_closed_subring_start(
                          [rings EXCEPT ![i].segments = <<segment>> \o @], i, segment),
                 at_end)

\* which of the four end point tests of add_to_existing_ring matches first
MatchCase(ring, segment) ==
    IF has_same_location(last_segment(ring).second, segment.first) THEN "a"
    ELSE IF has_same_location(last_segment(ring).second, segment.second) THEN "b"
    ELSE IF has_same_location(first_segment(ring).first, segment.first) THEN "c"
    ELSE IF has_same_location(first_segment(ring).first, segment.second) THEN "d"
    ELSE "none"

\* add_to_existing_ring: the segment matched ring i by test c
\* add_to_existing_ring without the calls of swap_locations
AttachToUnswapped(rings, i, segment, c) ==
    After(CASE c = "a" -> DuplicateNodeReport(last_segment(rings[i]).second, segment.first)
            [] c = "b" -> DuplicateNodeReport(last_segment(rings[i]).second, segment.second)
            [] c = "c" -> DuplicateNodeReport(first_segment(rings[i]).first, segment.first)
            [] c = "d" -> DuplicateNodeReport(first_segment(rings[i]).first, segment.second),
          combine_rings(rings, i, segment, c \in {"a", "b"}))

AttachTo(rings, i, segment, c) ==
    After(CASE c = "a" -> DuplicateNodeReport(last_segment(rings[i]).second, segment.first)
            [] c = "b" -> DuplicateNodeReport(last_segment(rings[i]).second, segment.second)
            [] c = "c" -> DuplicateNodeReport(first_segment(rings[i]).first, segment.first)
            [] c = "d" -> DuplicateNodeReport(first_segment(rings[i]).first, segment.second),
          combine_rings(rings, i,
                        IF c \in {"b", "c"} THEN swap_locations(segment) ELSE segment,
                        c \in {"a", "b"}))

\* the rings add_to_existing_ring may attach the segment to
MatchingRings(rings, segment) ==
    {i \in 1..Len(rings) : ~closed(rings[i]) /\ MatchCase(rings[i], segment) # "none"}

\* add_to_existing_ring that goes on to the last ring that matches
AttachToLast(rings, segment, hits) ==
    IF hits = {} THEN Step(FALSE, rings, 0, <<>>)
    ELSE AttachTo(rings, SetMax(hits), segment, MatchCase(rings[SetMax(hits)], segment))

AttachToFirst(rings, segment, hits) ==
    IF hits = {} THEN Step(FALSE, rings, 0, <<>>)
    ELSE AttachTo(rings, SetMin(hits), segment, MatchCase(rings[SetMin(hits)], segment))

add_to_existing_ring(rings, segment) ==
    AttachToFirst(rings, segment, MatchingRings(rings, segment))

\* one turn of the loop of stage2 over the segment list, r being the result
\* of add_to_existing_ring
NewRingUnless(r, rings, segment) ==
    IF r.found THEN r
    ELSE Step(FALSE, Append(rings, ProtoRing(<<segment>>)), Len(rings) + 1, <<>>)

AddSegment(rings, segment) ==
    NewRingUnless(add_to_existing_ring(rings, segment), rings, segment)

(***************************************************************************)
(* Assembler::check_for_open_rings.                                        *)
(***************************************************************************)
\* check_for_open_rings that looks at the first ring only
check_for_open_rings_first(rings) == rings # <<>> /\ ~closed(rings[1])

check_for_open_rings(rings) == \E i \in 1..Len(rings) : ~closed(rings[i])

OpenRingReports(rings, object_id) ==
    Flatten([i \in 1..Len(rings) |->
        IF closed(rings[i]) THEN <<>>
        ELSE <<ProblemReport("ring_not_closed", object_id, 0,
                             first_segment(rings[i]).first.loc,
                             last_segment(rings[i]).second.loc, <<>>)>>])

(***************************************************************************)
(* Assembler::check_inner_outer and the classification part of stage2.     *)
(***************************************************************************)
\* the segments the loop of check_inner_outer visits: the prefix of the
\* list whose first end points are not right of min_node
RECURSIVE ScannedPrefix(_, _)
ScannedPrefix(list, x) ==
    IF list = <<>> \/ Head(list).first.loc[1] > x THEN <<>>
    ELSE <<Head(list)>> \o ScannedPrefix(Tail(list), x)

\* TRUE iff check_inner_outer calls set_inner on the ring
check_inner_outer(ring, list) ==
    LET mn == min_node(ring).loc
        scan == ScannedPrefix(list, mn[1])
        seen == {k \in 1..Len(scan) : ~contains(ring, scan[k])}
        count == Cardinality({k \in seen : to_left_of(scan[k], mn)})
        above == Cardinality({k \in seen : scan[k].first.loc = mn /\ scan[k].second.loc[2] > mn[2]})
                 + Cardinality({k \in seen : scan[k].second.loc = mn /\ scan[k].first.loc[2] > mn[2]})
    IN (count + (above % 2)) % 2 = 1

\* a ring after check_inner_outer and the reversal that follows it
OrientRing(ring, list) ==
    IF check_inner_outer(ring, list)
    THEN IF is_cw(ring) THEN reverse([ring EXCEPT !.outer = FALSE])
         ELSE [ring EXCEPT !.outer = FALSE]
    ELSE IF ~is_cw(ring) THEN reverse(ring) ELSE ring

\* std::sort of the outer ring pointers by area; the order of rings of equal
\* area is left open (ties as for SortSegments)
RECURSIVE SortByArea(_, _, _)
SortByArea(idx, rings, ties) ==
    IF idx = <<>> THEN <<>>
    ELSE LET least == {i \in 1..Len(idx) :
                          \A j \in 1..Len(idx) : ~(area(rings[idx[j]]) < area(rings[idx[i]]))}
             k == IF ties = "fwd" THEN SetMin(least) ELSE SetMax(least)
         IN <<idx[k]>> \o SortByArea(RemoveRange(idx, k, k), rings, ties)

\* attach each inner ring to the first outer ring (in the given order)
\* that contains it
RECURSIVE AttachInner(_, _, _)
AttachInner(rings, outers, inners) ==
    IF inners = <<>> THEN rings
    ELSE LET in == Head(inners)
             hits == {k \in 1..Len(outers) : is_in(rings[in], rings[outers[k]])}
         IN IF hits = {} THEN AttachInner(rings, outers, Tail(inners))
            ELSE AttachInner([rings EXCEPT ![outers[SetMin(hits)]].inner = Append(@, in)],
                             outers, Tail(inners))

SelectIdx(rings, want) ==
    Flatten([i \in 1..Len(rings) |-> IF rings[i].outer = want THEN <<i>> ELSE <<>>])

\* stage2: the nesting of the rings, given the oriented rings and the
\* indices of the outer and of the inner rings
\* the nesting without the sort of the outer rings by area
NestRingsUnsorted(oriented, outers, inners, ties) ==
    IF Len(outers) = 1
    THEN [rings |-> [oriented EXCEPT ![outers[1]].inner = inners],
          outer |-> outers, inner |-> inners]
    ELSE [rings |-> AttachInner(oriented, outers, inners),
          outer |-> outers, inner |-> inners]

NestRings(oriented, outers, inners, ties) ==
    IF Len(outers) = 1
    THEN [rings |-> [oriented EXCEPT ![outers[1]].inner = inners],
          outer |-> outers, inner |-> inners]
    ELSE [rings |-> AttachInner(oriented, SortByArea(outers, oriented, ties), inners),
          outer |-> SortByArea(outers, oriented, ties), inner |-> inners]

SplitInnerOuter(oriented, ties) ==
    NestRings(oriented, SelectIdx(oriented, TRUE), SelectIdx(oriented, FALSE), ties)

\* stage2 from "Find inner/outer" to before check_inner_outer_roles:
\* [rings, outer, inner]
ClassifyRings(rings, list, ties) ==
    IF Len(rings) = 1
    THEN [rings |-> rings, outer |-> <<1>>, inner |-> <<>>]
    ELSE SplitInnerOuter([i \in 1..Len(rings) |-> OrientRing(rings[i], list)], ties)

(***************************************************************************)
(* Assembler::check_inner_outer_roles.                                     *)
(***************************************************************************)
RoleReports(rings, ringIdx, kind, object_id) ==
    Flatten([k \in 1..Len(ringIdx) |->
        LET segs == rings[ringIdx[k]].segments
        IN Flatten([m \in 1..Len(segs) |->
              IF (kind = "role_should_be_outer" /\ ~role_outer(segs[m]))
                 \/ (kind = "role_should_be_inner" /\ ~role_inner(segs[m]))
              THEN <<ProblemReport(kind, object_id, segs[m].way,
                                   segs[m].first.loc, segs[m].second.loc, <<>>)>>
              ELSE <<>>])])

check_inner_outer_roles(rings, outers, inners, object_id) ==
    RoleReports(rings, outers, "role_should_be_outer", object_id)
    \o RoleReports(rings, inners, "role_should_be_inner", object_id)

(***************************************************************************)
(* Assembler: writing the area.                                            *)
(***************************************************************************)
\* initialize_area_from_object: the area as first written to the buffer
\* initialize_area_from_object that leaves out the id offset
initialize_area_without_offset(object, id_offset) ==
    [id |-> object.id * 2,
     taglists |-> <<>>,
     rings |-> <<>>,
     commits |-> 0]

initialize_area_from_object(object, id_offset) ==
    [id |-> object.id * 2 + id_offset,
     taglists |-> <<>>,
     rings |-> <<>>,
     commits |-> 0]

\* the nodes of a ring taken from the first end of every segment
RingNodesOfFirstEnds(ring) ==
    <<first_segment(ring).first>>
    \o [k \in 1..Len(ring.segments) |-> ring.segments[k].first]

RingNodes(ring) ==
    <<first_segment(ring).first>>
    \o [k \in 1..Len(ring.segments) |-> ring.segments[k].second]

\* add_rings_to_area: the ring items written, one group per outer ring
RingItems(rings, outers) ==
    Flatten([k \in 1..Len(outers) |->
        <<[type |-> "outer", nodes |-> RingNodes(rings[outers[k]])]>>
        \o [m \in 1..Len(rings[outers[k]].inner) |->
               [type |-> "inner", nodes |-> RingNodes(rings[rings[outers[k]].inner[m]])]]])

\* add_rings_to_area with one commit after the loop over the outer rings
add_rings_to_area_one_commit(a, rings, outers) ==
    [a EXCEPT !.rings = @ \o RingItems(rings, outers), !.commits = @ + 1]

add_rings_to_area(a, rings, outers) ==
    [a EXCEPT !.rings = @ \o RingItems(rings, outers), !.commits = @ + Len(outers)]

(***************************************************************************)
(* Assembler: tags.  A tag is <<key, value>>, a tag list a sequence.       *)
(***************************************************************************)
\* the keys and values of the model in the byte order of std::string, which
\* is the order of the std::map of add_common_tags
KeyOrder == <<"landuse", "name", "natural", "note", "source", "type">>

ValueOrder == <<"Elm", "Oak", "forest", "multipolygon", "survey", "water">>

RankIn(order, x) == CHOOSE i \in 1..Len(order) : order[i] = x

TagLess(a, b) ==
    \/ RankIn(KeyOrder, a[1]) < RankIn(KeyOrder, b[1])
    \/ a[1] = b[1] /\ RankIn(ValueOrder, a[2]) < RankIn(ValueOrder, b[2])

RECURSIVE SortTags(_)
SortTags(S) ==
    IF S = {} THEN <<>>
    ELSE LET t == CHOOSE x \in S : \A y \in S : ~TagLess(y, x)
         IN <<t>> \o SortTags(S \ {t})

RelationIgnoredKeys == {"type", "created_by", "source", "note", "test:id", "test:section"}

InnerWayIgnoredKeys == {"created_by", "source", "note", "test:id", "test:section"}

\* the tags a KeyFilter lets through, in list order
FilterTags(tags, ignored) ==
    Flatten([i \in 1..Len(tags) |-> IF tags[i][1] \in ignored THEN <<>> ELSE <<tags[i]>>])

add_tags_to_area_way(way) == way.tags

\* the ways of a set of way pointers, taken from the members of the source
WaysOf(object, ids) == {object.members[i].way : i \in {j \in 1..Len(object.members) : object.members[j].way.id \in ids}}

\* the tags counted as often as there are ways, in map order
\* add_common_tags that takes the tags found on any of the ways
add_common_tags_of_any(ways) == SortTags(UNION {Range(w.tags) : w \in ways})

add_common_tags(ways) ==
    LET all == UNION {Range(w.tags) : w \in ways}
        Count(t) == LET occ == UNION {{<<w, i>> : i \in {j \in 1..Len(w.tags) : w.tags[j] = t}} :
                                          w \in ways}
                    IN Cardinality(occ)
    IN SortTags({t \in all : Count(t) = Cardinality(ways)})

add_tags_to_area_relation(relation, rings, outers) ==
    IF Len(FilterTags(relation.tags, RelationIgnoredKeys)) > 0
    THEN FilterTags(relation.tags, {"type"})
    ELSE LET ways == WaysOf(relation, UNION {get_ways(rings[outers[k]]) : k \in 1..Len(outers)})
         IN IF Cardinality(ways) = 1
            THEN (CHOOSE w \in ways : TRUE).tags
            ELSE add_common_tags(ways)

(***************************************************************************)
(* The inputs: ways on a small set of locations, and relations over them.  *)
(***************************************************************************)
N(x, y) == NodeRef(x * 100 + y, <<x, y>>)

\* a second node at the same location
N2(x, y) == NodeRef(x * 100 + y + 50, <<x, y>>)

Tag(k, v) == <<k, v>>

Way(id, nodes, tags) == [id |-> id, nodes |-> nodes, tags |-> tags]

\* the way catalogue, indexed by way id:
\*  1..4  four nested triangles           5  shares the long edge of 1
\*  6     inside 1, touching it at (0,0)  7, 8  open ways that together are 1
\*  9     two triangles touching in a node of the way
\*  10    a way that crosses itself       11  a triangle away from the others
\*  12    way 1 closed by a second node at the location of its first node
\*  13    a triangle whose leftmost node lies between its two other nodes
\*  14    an open way away from the others
WayCatalogue ==
    <<Way(1, <<N(0,0), N(12,0), N(0,12), N(0,0)>>,
             <<Tag("landuse", "forest"), Tag("name", "Elm")>>),
      Way(2, <<N(1,1), N(1,8), N(8,1), N(1,1)>>, <<Tag("natural", "water")>>),
      Way(3, <<N(2,2), N(6,2), N(2,6), N(2,2)>>,
             <<Tag("landuse", "forest"), Tag("name", "Oak")>>),
      Way(4, <<N(3,3), N(3,4), N(4,3), N(3,3)>>, <<>>),
      Way(5, <<N(12,0), N(12,12), N(0,12), N(12,0)>>,
             <<Tag("landuse", "forest"), Tag("name", "Oak")>>),
      Way(6, <<N(0,0), N(4,1), N(1,4), N(0,0)>>, <<Tag("source", "survey")>>),
      Way(7, <<N(0,0), N(12,0), N(0,12)>>, <<Tag("landuse", "forest")>>),
      Way(8, <<N(0,12), N(0,0)>>, <<Tag("landuse", "forest")>>),
      Way(9, <<N(20,0), N(21,1), N(22,0), N(22,2), N(21,1), N(20,2), N(20,0)>>, <<>>),
      Way(10, <<N(30,0), N(32,2), N(32,0), N(30,2), N(30,0)>>, <<>>),
      Way(11, <<N(40,0), N(44,0), N(40,4), N(40,0)>>,
              <<Tag("landuse", "forest"), Tag("name", "Elm")>>),
      Way(12, <<N(0,0), N(12,0), N(0,12), N2(0,0)>>, <<>>),
      Way(13, <<N(50,5), N(51,0), N(51,10), N(50,5)>>, <<Tag("natural", "water")>>),
      Way(14, <<N(60,0), N(60,3)>>, <<>>)>>

WayIds == 1..Len(WayCatalogue)

\* the role a way of the catalogue has when all catalogue ways are members
NaturalRole(id) == IF id \in {2, 4, 6} THEN "inner" ELSE "outer"

\* the closed ways of the catalogue that visit no location twice
SimpleClosedWayIds == {1, 2, 3, 4, 5, 6, 11, 13}

Member(way, role) == [way |-> way, role |-> role]

Relation(id, tags, members) ==
    [kind |-> "relation", id |-> id, tags |-> tags, members |-> members]

\* a way as the source of operator()(Way)
WaySource(way) ==
    [kind |-> "way", id |-> way.id, tags |-> way.tags, members |-> <<Member(way, "outer")>>]

\* the elements of a set of way ids in increasing order
RECURSIVE Ascending(_)
Ascending(S) == IF S = {} THEN <<>> ELSE <<SetMin(S)>> \o Ascending(S \ {SetMin(S)})

\* the way with its nodes (without the closing one) rotated by r, closed again
Rotated(way, r) ==
    LET open == SubSeq(way.nodes, 1, Len(way.nodes) - 1)
        n == Len(open)
        rot == [i \in 1..n |-> open[((i - 1 + r) % n) + 1]]
    IN [way EXCEPT !.nodes = Append(rot, rot[1])]

Reversed(way) == [way EXCEPT !.nodes = ReverseSeq(way.nodes)]

MultipolygonTags == <<Tag("type", "multipolygon")>>

\* relations over any few ways of the catalogue, in their natural roles
GeometryInputs ==
    {Relation(1, MultipolygonTags,
              [i \in 1..Cardinality(S) |->
                  Member(WayCatalogue[Ascending(S)[i]], NaturalRole(Ascending(S)[i]))]) :
        S \in {T \in SUBSET WayIds : Cardinality(T) <= MaxMembers}}

\* relations of one or two ways in any roles and any member order
RoleWayIds == {1, 2, 6, 7, 8}

Roles == {"outer", "inner", ""}

RoleInputs ==
    {Relation(1, MultipolygonTags, <<Member(WayCatalogue[a], r)>>) :
        a \in RoleWayIds, r \in Roles}
    \cup {Relation(1, MultipolygonTags,
                   <<Member(WayCatalogue[ab[1]], r), Member(WayCatalogue[ab[2]], q)>>) :
            ab \in {p \in RoleWayIds \X RoleWayIds : p[1] # p[2]}, r \in Roles, q \in Roles}

\* single ways: the catalogue, and the simple closed ways begun at any node
\* in either direction
WayInputs ==
    {WaySource(WayCatalogue[a]) : a \in WayIds}
    \cup {WaySource(Rotated(WayCatalogue[a], r)) : a \in SimpleClosedWayIds, r \in 0..2}
    \cup {WaySource(Reversed(Rotated(WayCatalogue[a], r))) : a \in SimpleClosedWayIds, r \in 0..2}

\* sources with ids of either sign
IdInputs ==
    {WaySource([WayCatalogue[1] EXCEPT !.id = i]) : i \in (-MaxId)..MaxId}
    \cup {Relation(i, MultipolygonTags, <<Member(WayCatalogue[1], "outer")>>) :
            i \in (-MaxId)..MaxId}

\* relations that have one way several times among their members
CopyInputs ==
    {Relation(1, MultipolygonTags,
              [i \in 1..(k + m) |->
                  IF i <= k THEN Member(WayCatalogue[1], "outer")
                  ELSE Member(WayCatalogue[5], "outer")]) :
        k \in 1..MaxCopies, m \in 0..1}

\* relations whose tags and whose ways' tags vary
WayTagChoices ==
    {<<>>,
     <<Tag("landuse", "forest"), Tag("name", "Elm")>>,
     <<Tag("name", "Elm"), Tag("landuse", "forest")>>,
     <<Tag("landuse", "forest"), Tag("name", "Oak")>>,
     <<Tag("source", "survey")>>,
     <<Tag("natural", "water"), Tag("note", "survey")>>}

RelationTagChoices ==
    {<<>>,
     MultipolygonTags,
     <<Tag("type", "multipolygon"), Tag("source", "survey")>>,
     <<Tag("type", "multipolygon"), Tag("natural", "water")>>,
     <<Tag("landuse", "forest"), Tag("type", "multipolygon"), Tag("name", "Elm")>>}

TagShapes == {<<1, 11>>, <<7, 8>>, <<1, 2>>}

TagInputs ==
    {Relation(1, rt, <<Member([WayCatalogue[1] EXCEPT !.tags = t1], "outer")>>) :
        rt \in RelationTagChoices, t1 \in WayTagChoices}
    \cup {Relation(1, rt,
                   <<Member([WayCatalogue[sh[1]] EXCEPT !.tags = t1], NaturalRole(sh[1])),
                     Member([WayCatalogue[sh[2]] EXCEPT !.tags = t2], NaturalRole(sh[2]))>>) :
            rt \in RelationTagChoices, t1 \in WayTagChoices, t2 \in WayTagChoices,
            sh \in TagShapes}

\* a way whose nodes are one node twice: it has no segment
DegenerateWay == Way(16, <<N(70, 0), N(70, 0)>>, <<Tag("natural", "water")>>)

\* sources whose prepared segment list is empty: a degenerate way, and
\* relations without members, of a degenerate way, or of one way twice
EmptyInputs ==
    {WaySource(DegenerateWay),
     Relation(1, MultipolygonTags, <<>>),
     Relation(1, MultipolygonTags, <<Member(DegenerateWay, "inner")>>)}
    \cup {Relation(1, MultipolygonTags,
                   <<Member(WayCatalogue[a], r), Member(WayCatalogue[a], r)>>) :
            a \in {1, 2, 10}, r \in {"outer", "inner"}}

\* a triangle that stands on its lowest node, and a triangle in it whose
\* smallest node is that node
StandingWay == Way(17, <<N(2, 0), N(6, 4), N(0, 4), N(2, 0)>>, <<>>)

TouchingWay == Way(18, <<N(2, 0), N(2, 3), N(3, 3), N(2, 0)>>, <<>>)

\* one way that runs around triangle 1 of the catalogue and then around
\* triangle 6, which lies in it and touches it in the first node
LoopInLoopWay ==
    Way(19, <<N(0,0), N(12,0), N(0,12), N(0,0), N(4,1), N(1,4), N(0,0)>>,
        <<Tag("natural", "water")>>)

\* two triangles that lie to the right of the one node they share, one in
\* the other
WideWay == Way(20, <<N(0, 8), N(4, 16), N(4, 0), N(0, 8)>>, <<>>)

NarrowWay == Way(21, <<N(0, 8), N(2, 11), N(2, 7), N(0, 8)>>, <<>>)

TouchInputs ==
    {Relation(1, MultipolygonTags,
              <<Member(StandingWay, "outer"), Member(TouchingWay, "inner")>>),
     Relation(2, MultipolygonTags,
              <<Member(WideWay, "outer"), Member(NarrowWay, "inner")>>),
     WaySource(LoopInLoopWay)}

\* a configuration: the source, whether a problem reporter is set, the
\* debug flag
Config(in, reporter, debug) ==
    [input |-> in, reporter |-> reporter, debug |-> debug, then |-> <<>>]

Configurations ==
    {Config(in, TRUE, FALSE) :
        in \in GeometryInputs \cup IdInputs \cup CopyInputs \cup TagInputs \cup EmptyInputs
                \cup TouchInputs}
    \cup {Config(in, rd[1], rd[2]) :
            in \in WayInputs \cup RoleInputs,
            rd \in {<<TRUE, FALSE>>, <<FALSE, FALSE>>, <<TRUE, TRUE>>}}

\* three ways on the same locations that differ in id, role and node ids:
\* which of them the segments that remain come from depends on the order
\* std::sort leaves equal segments in
EqualWaysInput ==
    Relation(1, MultipolygonTags,
             <<Member(WayCatalogue[1], "outer"), Member(WayCatalogue[12], "inner"),
               Member([WayCatalogue[1] EXCEPT !.id = 15, !.tags = <<Tag("natural", "water")>>],
                      "outer")>>)

\* the sources assembled a second time on the same instance: ways and
\* relations that succeed, that fail on an intersection or an open ring,
\* with a role mismatch, with an inner way that gets an area of its own,
\* with equal segments
AgainInputs ==
    {WaySource(WayCatalogue[a]) : a \in {1, 7, 10, 12}}
    \cup {Relation(1, MultipolygonTags,
                   [i \in 1..Len(ids) |-> Member(WayCatalogue[ids[i]], NaturalRole(ids[i]))]) :
            ids \in {<<1, 2>>, <<1, 2, 3, 4>>, <<7, 8>>, <<>>}}
    \cup {Relation(1, MultipolygonTags, <<Member(WayCatalogue[1], "inner")>>),
          EqualWaysInput}

\* the sources assembled in between
BetweenInputs ==
    {WaySource(WayCatalogue[a]) : a \in {2, 7, 10}}
    \cup {Relation(2, MultipolygonTags,
                   [i \in 1..Len(ids) |-> Member(WayCatalogue[ids[i]], NaturalRole(ids[i]))]) :
            ids \in {<<1, 2, 3, 4>>, <<1, 14>>, <<1, 10>>}}
    \cup {Relation(2, MultipolygonTags, <<Member(WayCatalogue[2], "outer")>>)}

\* a source assembled twice on one instance, at once or with another
\* source in between
ConfigAgain(in, reporter, debug, between) ==
    [input |-> in, reporter |-> reporter, debug |-> debug, then |-> between \o <<in>>]

AgainConfigurations ==
    {ConfigAgain(in, rd[1], rd[2], between) :
        in \in AgainInputs,
        rd \in {<<TRUE, FALSE>>, <<FALSE, TRUE>>},
        between \in {<<>>} \cup {<<b>> : b \in BetweenInputs}}

(***************************************************************************)
(* The state.                                                              *)
(***************************************************************************)
VARIABLES
    input,                      \* the source the caller assembles
    calls,                      \* the running invocations of operator(), innermost last:
                                \* [source, builder, memit]
    pc,                         \* where the innermost invocation is
    pos,                        \* stage2: index of the next segment of the loop
    stage2_ret,                 \* what stage2 of the innermost invocation returned
    m_problem_reporter,         \* TRUE iff a problem reporter is set
    m_debug,
    m_segment_list,
    m_rings,
    m_object_id,
    m_outer_rings,
    m_inner_rings,
    m_inner_outer_mismatches,
    out_buffer,                 \* the areas written, each with its number of commits
    reports,                    \* the calls made on the problem reporter
    reports_before,             \* how many of them were made before the latest
                                \* invocation of operator() began
    schedule,                   \* the sources the caller assembles next on the instance
    history,                    \* what the earlier invocations by the caller gave:
                                \* [input, out_buffer, reports]
    segment_ties,               \* the order the build's std::sort leaves equal segments
    ring_ties,                  \* and rings of equal area in, "unset" while not observed
    \* diff_handler::apply
    stream,                     \* the items from the first iterator to end: [type, id]
    it,                         \* the iterators of apply, as positions in the stream
    prev,
    next,
    last_type,
    apply_pc,                   \* where apply is: "loop", "item", "returned", "thrown"
    handler_calls,              \* the callbacks made: [handler, name, prev, curr, next]
    \* thread::CheckedTask
    m_thread,                   \* "joinable" or "joined"
    m_future,                   \* "valid" or "invalid"
    shared_state,               \* what the packaged task has stored for the future:
                                \* "pending", "true", "false" or "exception"
    worker,                     \* the thread: "running", "stored", "exited"
    owner,                      \* where the owning thread is
    owner_calls,                \* the calls the owner has finished: [op, how]
    joins,                      \* the calls of m_thread.join() that have returned
    join_errors                 \* the calls of join() on a thread that was not joinable

\* what the invocations on the instance leave unchanged
caller_vars == <<schedule, history>>

sort_vars == <<segment_ties, ring_ties>>

assembler_vars ==
    <<input, calls, pc, pos, stage2_ret, m_problem_reporter, m_debug, m_segment_list,
      m_rings, m_object_id, m_outer_rings, m_inner_rings, m_inner_outer_mismatches,
      out_buffer, reports, reports_before, schedule, history, segment_ties, ring_ties>>

diff_vars == <<stream, it, prev, next, last_type, apply_pc, handler_calls>>

task_vars == <<m_thread, m_future, shared_state, worker, owner, owner_calls, joins,
               join_errors>>

\* the state of the components an operation of the assembler does not touch
outside_vars == <<diff_vars, task_vars>>

vars == <<assembler_vars, diff_vars, task_vars>>

\* no apply is running
DiffIdle ==
    /\ stream = <<>>
    /\ it = 0
    /\ prev = 0
    /\ next = 0
    /\ last_type = "undefined"
    /\ apply_pc = "idle"
    /\ handler_calls = <<>>

\* no CheckedTask has been built
TaskIdle ==
    /\ m_thread = "none"
    /\ m_future = "none"
    /\ shared_state = "none"
    /\ worker = "none"
    /\ owner = "idle"
    /\ owner_calls = <<>>
    /\ joins = 0
    /\ join_errors = 0

Frame(source) == [source |-> source, builder |-> 0, memit |-> 0]

\* the innermost invocation
Cur == calls[Len(calls)]

\* Buffer::commit, counted on the area being built
commit(a) == [a EXCEPT !.commits = @ + 1]

Init ==
    \E c \in Configurations \cup AgainConfigurations :
        /\ DiffIdle
        /\ TaskIdle
        /\ schedule = c.then
        /\ history = <<>>
        /\ segment_ties = "unset"
        /\ ring_ties = "unset"
        /\ input = c.input
        /\ m_problem_reporter = c.reporter
        /\ m_debug = c.debug
        /\ calls = <<Frame(c.input)>>
        /\ pc = "call"
        /\ pos = 0
        /\ stage2_ret = "none"
        /\ m_segment_list = <<>>
        /\ m_rings = <<>>
        /\ m_object_id = 0
        /\ m_outer_rings = <<>>
        /\ m_inner_rings = <<>>
        /\ m_inner_outer_mismatches = 0
        /\ out_buffer = <<>>
        /\ reports = <<>>
        /\ reports_before = 0

(***************************************************************************)
(* The steps of operator()(Way), operator()(Relation) and stage2.          *)
(***************************************************************************)
Report(rs) == reports' = IF m_problem_reporter THEN reports \o rs ELSE reports

\* the innermost invocation returns: to the caller of the assembler, or to
\* the loop over the inner members of the relation that called it
Finish ==
    IF Len(calls) = 1
    THEN pc' = "done" /\ calls' = calls
    ELSE /\ pc' = "rescue"
         /\ calls' = [SubSeq(calls, 1, Len(calls) - 1) EXCEPT ![Len(calls) - 1].memit = @ + 1]

\* init_assembler that does not clear the ring list
EnterKeepingRings(id, segments, id_offset) ==
    /\ m_segment_list' = segments
    /\ m_rings' = m_rings
    /\ m_outer_rings' = <<>>
    /\ m_inner_rings' = <<>>
    /\ m_object_id' = id
    /\ m_inner_outer_mismatches' = 0
    /\ out_buffer' = Append(out_buffer, commit(initialize_area_from_object(Cur.source, id_offset)))
    /\ calls' = [calls EXCEPT ![Len(calls)].builder = Len(out_buffer) + 1]
    /\ pc' = "stage2"
    /\ pos' = 0
    /\ stage2_ret' = "none"
    /\ reports_before' = Len(reports)
    /\ UNCHANGED <<input, m_problem_reporter, m_debug, caller_vars, sort_vars, outside_vars>>

\* init_assembler, the extraction of the segments and the first commit
Enter(id, segments, id_offset) ==
    /\ m_segment_list' = segments
    /\ m_rings' = <<>>
    /\ m_outer_rings' = <<>>
    /\ m_inner_rings' = <<>>
    /\ m_object_id' = id
    /\ m_inner_outer_mismatches' = 0
    /\ out_buffer' = Append(out_buffer, commit(initialize_area_from_object(Cur.source, id_offset)))
    /\ calls' = [calls EXCEPT ![Len(calls)].builder = Len(out_buffer) + 1]
    /\ pc' = "stage2"
    /\ pos' = 0
    /\ stage2_ret' = "none"
    /\ reports_before' = Len(reports)
    /\ UNCHANGED <<input, m_problem_reporter, m_debug, caller_vars, sort_vars, outside_vars>>

ends_have_same_id(way) == way.nodes[1].ref = way.nodes[Len(way.nodes)].ref

WayIdOffset == 0

RelationIdOffset == 1

WayCall ==
    /\ pc = "call"
    /\ Cur.source.kind = "way"
    /\ LET way == Cur.source.members[1].way
       IN /\ Report(IF ~ends_have_same_id(way)
                    THEN <<ProblemReport("duplicate_node", way.nodes[1].ref,
                                         way.nodes[Len(way.nodes)].ref,
                                         way.nodes[1].loc, <<>>, <<>>)>>
                    ELSE <<>>)
          /\ Enter(way.id, extract_segments_from_way(way, "outer"), WayIdOffset)

RelationCall ==
    /\ pc = "call"
    /\ Cur.source.kind = "relation"
    /\ Report(<<>>)
    /\ Enter(Cur.source.id, extract_segments_from_ways(Cur.source.members), RelationIdOffset)

\* stage2: sort, erase_duplicate_segments, find_intersections
\* stage2: m_segment_list.sort() and erase_duplicate_segments()
\* the preparation of the segment list without the sort
PrepareSegmentsUnsorted(list, ties) == erase_duplicate_segments(list)

PrepareSegments(list, ties) == erase_duplicate_segments(SortSegments(list, ties))

\* stage2: find_intersections on the prepared list
Scan(prepared) ==
    /\ m_segment_list' = prepared
    /\ Report(IntersectionReports(prepared, m_object_id))
    /\ IF find_intersections(prepared)
       THEN stage2_ret' = "false" /\ Finish /\ pos' = pos
       ELSE stage2_ret' = stage2_ret /\ pc' = "rings" /\ pos' = 1 /\ calls' = calls

\* a sort that leaves equal elements in an order that changes from call to
\* call
TiesOfUnstableSort(seen) == TieOrders

\* std::sort is one function in one build: the order it has been seen to
\* leave equal elements in is the order it leaves them in again
TiesOf(seen) == IF seen = "unset" THEN TieOrders ELSE {seen}

Seen(seen, ties, fwd, rev) == IF fwd = rev THEN seen ELSE ties

Stage2Prepare ==
    /\ pc = "stage2"
    /\ \E ties \in TiesOf(segment_ties) :
          /\ Scan(PrepareSegments(m_segment_list, ties))
          /\ segment_ties' = Seen(segment_ties, ties, PrepareSegments(m_segment_list, "fwd"),
                                  PrepareSegments(m_segment_list, "rev"))
    /\ UNCHANGED <<input, m_problem_reporter, m_debug, m_rings, m_object_id, m_outer_rings,
                   m_inner_rings, m_inner_outer_mismatches, out_buffer, reports_before,
                   caller_vars, ring_ties, outside_vars>>

Attached(r) == m_rings' = r.rings /\ Report(r.reports)

\* stage2: one turn of the loop over the segments
Stage2AddSegment ==
    /\ pc = "rings"
    /\ pos <= Len(m_segment_list)
    /\ Attached(AddSegment(m_rings, m_segment_list[pos]))
    /\ pos' = pos + 1
    /\ UNCHANGED <<input, calls, pc, stage2_ret, m_problem_reporter, m_debug, m_segment_list,
                   m_object_id, m_outer_rings, m_inner_rings, m_inner_outer_mismatches,
                   out_buffer, reports_before, caller_vars, sort_vars, outside_vars>>

\* stage2: check_for_open_rings after the loop
Stage2CheckOpenRings ==
    /\ pc = "rings"
    /\ pos > Len(m_segment_list)
    /\ Report(OpenRingReports(m_rings, m_object_id))
    /\ IF check_for_open_rings(m_rings)
       THEN stage2_ret' = "false" /\ Finish
       ELSE stage2_ret' = stage2_ret /\ pc' = "classify" /\ calls' = calls
    /\ UNCHANGED <<input, pos, m_problem_reporter, m_debug, m_segment_list, m_rings,
                   m_object_id, m_outer_rings, m_inner_rings, m_inner_outer_mismatches,
                   out_buffer, reports_before, caller_vars, sort_vars, outside_vars>>

\* check_inner_outer_roles that counts a mismatch only where it reports it
RolesCheckedWhenReported(roles) ==
    /\ m_inner_outer_mismatches' =
          m_inner_outer_mismatches + (IF m_problem_reporter THEN Len(roles) ELSE 0)
    /\ Report(roles)

RolesChecked(roles) ==
    /\ m_inner_outer_mismatches' = m_inner_outer_mismatches + Len(roles)
    /\ Report(roles)

Classified(c) ==
    /\ m_rings' = c.rings
    /\ m_outer_rings' = c.outer
    /\ m_inner_rings' = c.inner
    /\ RolesChecked(check_inner_outer_roles(c.rings, c.outer, c.inner, m_object_id))

\* stage2: inner/outer, orientation, nesting, check_inner_outer_roles
Stage2Classify ==
    /\ pc = "classify"
    /\ \E ties \in TiesOf(ring_ties) :
          /\ Classified(ClassifyRings(m_rings, m_segment_list, ties))
          /\ ring_ties' = Seen(ring_ties, ties, ClassifyRings(m_rings, m_segment_list, "fwd"),
                               ClassifyRings(m_rings, m_segment_list, "rev"))
    /\ stage2_ret' = "true"
    /\ pc' = "emit"
    /\ UNCHANGED <<input, calls, pos, m_problem_reporter, m_debug, m_segment_list,
                   m_object_id, out_buffer, reports_before, caller_vars, segment_ties,
                   outside_vars>>

\* the tag list of the area of the source
AreaTags(source, rings, outers) ==
    IF source.kind = "way"
    THEN add_tags_to_area_way(source.members[1].way)
    ELSE add_tags_to_area_relation(source, rings, outers)

\* the same with the loop over the members entered whatever the count of
\* role mismatches is
EmitThenAlwaysRescue ==
    /\ pc = "emit"
    /\ out_buffer' =
          [out_buffer EXCEPT ![Cur.builder] =
              add_rings_to_area(
                  [@ EXCEPT !.taglists = Append(@, AreaTags(Cur.source, m_rings, m_outer_rings))],
                  m_rings, m_outer_rings)]
    /\ IF Cur.source.kind = "relation"
       THEN pc' = "rescue" /\ calls' = [calls EXCEPT ![Len(calls)].memit = 1]
       ELSE Finish
    /\ UNCHANGED <<input, pos, stage2_ret, m_problem_reporter, m_debug, m_segment_list,
                   m_rings, m_object_id, m_outer_rings, m_inner_rings,
                   m_inner_outer_mismatches, reports, reports_before, caller_vars,
                   sort_vars, outside_vars>>

\* after a successful stage2: add_tags_to_area and add_rings_to_area
Emit ==
    /\ pc = "emit"
    /\ out_buffer' =
          [out_buffer EXCEPT ![Cur.builder] =
              add_rings_to_area(
                  [@ EXCEPT !.taglists = Append(@, AreaTags(Cur.source, m_rings, m_outer_rings))],
                  m_rings, m_outer_rings)]
    /\ IF Cur.source.kind = "relation" /\ m_inner_outer_mismatches = 0
       THEN pc' = "rescue" /\ calls' = [calls EXCEPT ![Len(calls)].memit = 1]
       ELSE Finish
    /\ UNCHANGED <<input, pos, stage2_ret, m_problem_reporter, m_debug, m_segment_list,
                   m_rings, m_object_id, m_outer_rings, m_inner_rings,
                   m_inner_outer_mismatches, reports, reports_before, caller_vars,
                   sort_vars, outside_vars>>

is_closed(way) == way.nodes[1].ref = way.nodes[Len(way.nodes)].ref

\* the test of the loop over the members: the member is an inner way that
\* gets an area of its own
InnerWayDiffers(member, area_tags) ==
    LET wf == FilterTags(member.way.tags, InnerWayIgnoredKeys)
        af == FilterTags(area_tags, InnerWayIgnoredKeys)
        d == Len(wf)
    IN /\ member.role = "inner"
       /\ is_closed(member.way)
       /\ Len(member.way.tags) > 0
       /\ d > 0
       /\ \/ d # Len(af)
          \/ \E i \in 1..d : wf[i] # af[i]

\* operator()(Relation): one turn of the loop over the members
Rescue ==
    /\ pc = "rescue"
    /\ IF Cur.memit > Len(Cur.source.members)
       THEN pc' = "done" /\ calls' = calls
       ELSE LET member == Cur.source.members[Cur.memit]
            IN IF InnerWayDiffers(member, out_buffer[Cur.builder].taglists[1])
               THEN pc' = "call" /\ calls' = Append(calls, Frame(WaySource(member.way)))
               ELSE pc' = pc /\ calls' = [calls EXCEPT ![Len(calls)].memit = @ + 1]
    /\ UNCHANGED <<input, pos, stage2_ret, m_problem_reporter, m_debug, m_segment_list,
                   m_rings, m_object_id, m_outer_rings, m_inner_rings,
                   m_inner_outer_mismatches, out_buffer, reports, reports_before,
                   caller_vars, sort_vars, outside_vars>>

\* the caller, after operator() has returned, calls operator() on the same
\* instance for the next source, with an empty buffer; the reports made so
\* far are set aside
AssembleNext ==
    /\ pc = "done"
    /\ schedule # <<>>
    /\ history' = Append(history, [input |-> input, out_buffer |-> out_buffer,
                                   reports |-> reports])
    /\ input' = Head(schedule)
    /\ schedule' = Tail(schedule)
    /\ calls' = <<Frame(Head(schedule))>>
    /\ pc' = "call"
    /\ pos' = 0
    /\ stage2_ret' = "none"
    /\ out_buffer' = <<>>
    /\ reports' = <<>>
    /\ reports_before' = 0
    /\ UNCHANGED <<m_problem_reporter, m_debug, m_segment_list, m_rings, m_object_id,
                   m_outer_rings, m_inner_rings, m_inner_outer_mismatches, sort_vars,
                   outside_vars>>

Next ==
    \/ AssembleNext
    \/ WayCall
    \/ RelationCall
    \/ Stage2Prepare
    \/ Stage2AddSegment
    \/ Stage2CheckOpenRings
    \/ Stage2Classify
    \/ Emit
    \/ Rescue

Spec == Init /\ [][Next]_vars

(***************************************************************************)
(* Ring building on every small set of segments: operator()(Relation) on   *)
(* relations whose member ways are single segments between the nodes of a  *)
(* small grid, one of which is a second node at the location of another.   *)
(***************************************************************************)
\* the most member ways (segments) of such a relation
MaxRingSegments == 6

GridNodes == <<N(0, 0), N(2, 0), N(1, 1), N(0, 2), N(2, 2), N2(1, 1)>>

GridPairs == {pq \in (1..Len(GridNodes)) \X (1..Len(GridNodes)) : pq[1] < pq[2]}

\* the way of two nodes between the nodes pq[1] and pq[2] of the grid
SegmentWay(pq) == Way(10 * pq[1] + pq[2], <<GridNodes[pq[1]], GridNodes[pq[2]]>>, <<>>)

\* the ways of the pairs in S as outer members, in the order of their ids
RECURSIVE MembersOf(_)
MembersOf(S) ==
    IF S = {} THEN <<>>
    ELSE LET pq == CHOOSE a \in S : \A b \in S : 10 * a[1] + a[2] <= 10 * b[1] + b[2]
         IN <<Member(SegmentWay(pq), "outer")>> \o MembersOf(S \ {pq})

RingInputs ==
    {Relation(1, MultipolygonTags, MembersOf(S)) :
        S \in {T \in SUBSET GridPairs : Cardinality(T) \in 1..MaxRingSegments}}

RingInit ==
    \E in \in RingInputs :
        /\ DiffIdle
        /\ TaskIdle
        /\ schedule = <<>>
        /\ history = <<>>
        /\ segment_ties = "unset"
        /\ ring_ties = "unset"
        /\ input = in
        /\ m_problem_reporter = TRUE
        /\ m_debug = FALSE
        /\ calls = <<Frame(in)>>
        /\ pc = "call"
        /\ pos = 0
        /\ stage2_ret = "none"
        /\ m_segment_list = <<>>
        /\ m_rings = <<>>
        /\ m_object_id = 0
        /\ m_outer_rings = <<>>
        /\ m_inner_rings = <<>>
        /\ m_inner_outer_mismatches = 0
        /\ out_buffer = <<>>
        /\ reports = <<>>
        /\ reports_before = 0

RingNext ==
    \/ RelationCall
    \/ Stage2Prepare
    \/ Stage2AddSegment
    \/ Stage2CheckOpenRings
    \/ Stage2Classify
    \/ Emit
    \/ Rescue

RingSpec == RingInit /\ [][RingNext]_vars

(***************************************************************************)
(* Two assemblers on one source: one built with a problem reporter and one *)
(* built without, the second run after the first has returned.             *)
(***************************************************************************)
ReporterInputs ==
    GeometryInputs \cup IdInputs \cup CopyInputs \cup TagInputs \cup EmptyInputs
    \cup TouchInputs \cup WayInputs \cup RoleInputs

\* the first assembler has been constructed, with or without a reporter
ReporterInit ==
    \E in \in ReporterInputs, reporter \in BOOLEAN :
        /\ DiffIdle
        /\ TaskIdle
        /\ schedule = <<in>>
        /\ history = <<>>
        /\ segment_ties = "unset"
        /\ ring_ties = "unset"
        /\ input = in
        /\ m_problem_reporter = reporter
        /\ m_debug = FALSE
        /\ calls = <<Frame(in)>>
        /\ pc = "call"
        /\ pos = 0
        /\ stage2_ret = "none"
        /\ m_segment_list = <<>>
        /\ m_rings = <<>>
        /\ m_object_id = 0
        /\ m_outer_rings = <<>>
        /\ m_inner_rings = <<>>
        /\ m_inner_outer_mismatches = 0
        /\ out_buffer = <<>>
        /\ reports = <<>>
        /\ reports_before = 0

\* the first assembler has returned: what it gave is kept, and a second
\* assembler is constructed with the other value of the reporter pointer
\* and called on the same source with a buffer of its own; the build's
\* std::sort is the same
AssembleWithOtherReporter ==
    /\ pc = "done"
    /\ schedule # <<>>
    /\ history' = Append(history, [input |-> input, out_buffer |-> out_buffer,
                                   reports |-> reports, stage2_ret |-> stage2_ret,
                                   reporter |-> m_problem_reporter])
    /\ input' = Head(schedule)
    /\ schedule' = Tail(schedule)
    /\ calls' = <<Frame(Head(schedule))>>
    /\ pc' = "call"
    /\ pos' = 0
    /\ stage2_ret' = "none"
    /\ m_problem_reporter' = ~m_problem_reporter
    /\ m_segment_list' = <<>>
    /\ m_rings' = <<>>
    /\ m_object_id' = 0
    /\ m_outer_rings' = <<>>
    /\ m_inner_rings' = <<>>
    /\ m_inner_outer_mismatches' = 0
    /\ out_buffer' = <<>>
    /\ reports' = <<>>
    /\ reports_before' = 0
    /\ UNCHANGED <<m_debug, sort_vars, outside_vars>>

ReporterNext ==
    \/ AssembleWithOtherReporter
    \/ WayCall
    \/ RelationCall
    \/ Stage2Prepare
    \/ Stage2AddSegment
    \/ Stage2CheckOpenRings
    \/ Stage2Classify
    \/ Emit
    \/ Rescue

ReporterSpec == ReporterInit /\ [][ReporterNext]_vars

(***************************************************************************)
(* Reference notions used to state the properties.                         *)
(***************************************************************************)
\* twice the signed area of a closed node sequence: positive iff the
\* sequence runs counter-clockwise
RECURSIVE SignedArea2(_)
SignedArea2(nodes) ==
    IF Len(nodes) < 2 THEN 0
    ELSE nodes[1].loc[1] * nodes[2].loc[2] - nodes[2].loc[1] * nodes[1].loc[2]
         + SignedArea2(Tail(nodes))

NodesClosed(nodes) == Len(nodes) >= 2 /\ nodes[1].loc = nodes[Len(nodes)].loc

\* the area written by the latest invocation of operator()
LastArea == out_buffer[Len(out_buffer)]

HeaderOnly(a) == a.rings = <<>> /\ a.taglists = <<>>

OuterItems(a) == {k \in 1..Len(a.rings) : a.rings[k].type = "outer"}

InnerItems(a) == {k \in 1..Len(a.rings) : a.rings[k].type = "inner"}

\* the reports of the latest invocation of operator()
LatestReports == SubSeq(reports, reports_before + 1, Len(reports))

ReportsOfType(rs, type) ==
    Flatten([k \in 1..Len(rs) |-> IF rs[k].type = type THEN <<rs[k]>> ELSE <<>>])

(***************************************************************************)
(* C1.  Every ring written as an outer ring is closed and runs             *)
(* counter-clockwise (positive signed area), every ring written as an      *)
(* inner ring is closed and runs clockwise, also when the ring list holds  *)
(* exactly one ring.                                                       *)
(***************************************************************************)
C1_OuterCcwInnerCw ==
    \A i \in 1..Len(out_buffer) :
        \A k \in 1..Len(out_buffer[i].rings) :
            LET item == out_buffer[i].rings[k]
            IN /\ NodesClosed(item.nodes)
               /\ item.type = "outer" => SignedArea2(item.nodes) > 0
               /\ item.type = "inner" => SignedArea2(item.nodes) < 0

(***************************************************************************)
(* C2.  If the intersection scan finds an intersection, stage2 returns     *)
(* false before any ring is built, the area of the source stays the        *)
(* header-only record committed once, and for a relation no area of an     *)
(* inner member way is written.                                            *)
(***************************************************************************)
C2_IntersectionLeavesHeaderOnly ==
    (pc \notin {"call", "stage2"} /\ IntersectingPairs(m_segment_list) # <<>>)
        => /\ stage2_ret = "false"
           /\ m_rings = <<>>
           /\ m_outer_rings = <<>>
           /\ m_inner_rings = <<>>
           /\ HeaderOnly(LastArea)
           /\ LastArea.commits = 1
           /\ Len(calls) = 1
           /\ input.kind = "relation" => (pc = "done" /\ Len(out_buffer) = 1)

\* a relation with a crossing and with a tagged closed inner way has returned
C2_Witness ==
    /\ pc = "done"
    /\ input.kind = "relation"
    /\ IntersectingPairs(m_segment_list) # <<>>
    /\ \E k \in 1..Len(input.members) :
          /\ input.members[k].role = "inner"
          /\ is_closed(input.members[k].way)
          /\ FilterTags(input.members[k].way.tags, InnerWayIgnoredKeys) # <<>>

(***************************************************************************)
(* C3.  After the loop over the segments: report_ring_not_closed is        *)
(* called once for each open ring, in ring order, with the location of the *)
(* first end point of its first segment and of the second end point of its *)
(* last segment; if a ring is open stage2 returns false and the area keeps *)
(* zero rings; if every ring is closed there is no such call.              *)
(***************************************************************************)
OpenRingsChecked ==
    \/ pc \in {"classify", "emit"}
    \/ stage2_ret = "true"
    \/ stage2_ret = "false" /\ IntersectingPairs(m_segment_list) = <<>>

OpenRings == {i \in 1..Len(m_rings) : ~closed(m_rings[i])}

C3_OpenRingsReportedOnce ==
    OpenRingsChecked =>
        LET open == Ascending(OpenRings)
            mine == ReportsOfType(LatestReports, "ring_not_closed")
        IN /\ m_problem_reporter =>
                /\ Len(mine) = Len(open)
                /\ \A k \in 1..Len(open) :
                      /\ mine[k].id = m_object_id
                      /\ mine[k].p1 = m_rings[open[k]].segments[1].first.loc
                      /\ mine[k].p2 = m_rings[open[k]].segments[Len(m_rings[open[k]].segments)].second.loc
           /\ ~m_problem_reporter => mine = <<>>
           /\ OpenRings # {} => (stage2_ret = "false" /\ LastArea.rings = <<>>)
           /\ OpenRings = {} => stage2_ret # "false"

\* a run with a reporter has ended with two open rings
C3_Witness ==
    /\ pc = "done"
    /\ m_problem_reporter
    /\ stage2_ret = "false"
    /\ Cardinality(OpenRings) >= 2
    /\ Len(ReportsOfType(LatestReports, "ring_not_closed")) = 2

(***************************************************************************)
(* C4.  The buffer is committed once with a ring-less, tag-less area       *)
(* before stage2 starts, so before any diagnostic of stage2 and before any *)
(* ring data; a failed run commits no more, a successful run commits once  *)
(* more for each outer ring: 1 commit on failure, 1 + (number of outer     *)
(* rings) on success.                                                      *)
(***************************************************************************)
C4_CommitCounts ==
    /\ \A i \in 1..Len(out_buffer) :
          out_buffer[i].commits = 1 + Cardinality(OuterItems(out_buffer[i]))
    /\ pc = "stage2" =>
          /\ HeaderOnly(LastArea)
          /\ LastArea.commits = 1
          /\ Len(LatestReports) <= 1
          /\ \A k \in 1..Len(LatestReports) : LatestReports[k].type = "duplicate_node"
    /\ pc \in {"rings", "classify", "emit"} => (HeaderOnly(LastArea) /\ LastArea.commits = 1)
    /\ stage2_ret = "false" => (HeaderOnly(LastArea) /\ LastArea.commits = 1)
    /\ (stage2_ret = "true" /\ pc # "emit") =>
          /\ LastArea.commits = 1 + Len(m_outer_rings)
          /\ Len(LastArea.taglists) = 1

\* a run has ended with more than one outer ring written
C4_Witness ==
    /\ pc = "done"
    /\ stage2_ret = "true"
    /\ Len(m_outer_rings) >= 2
    /\ LastArea.commits = 1 + Len(m_outer_rings)

(***************************************************************************)
(* C5.  The area id is 2 * id for a way and 2 * id + 1 for a relation,     *)
(* for ids of either sign; so the kind and the id of the source can be     *)
(* read back from the area id: no area of a way has the id of an area of a *)
(* relation, and different sources of one kind get different area ids.     *)
(***************************************************************************)
C5_AreaIds ==
    /\ out_buffer # <<>> =>
          /\ out_buffer[1].id = input.id * 2 + (IF input.kind = "way" THEN 0 ELSE 1)
          /\ (out_buffer[1].id % 2 = 0) = (input.kind = "way")
          /\ (out_buffer[1].id - (out_buffer[1].id % 2)) \div 2 = input.id
    /\ \A i \in 2..Len(out_buffer) :
          /\ \E k \in 1..Len(input.members) :
                /\ input.members[k].role = "inner"
                /\ out_buffer[i].id = input.members[k].way.id * 2
          /\ out_buffer[i].id # out_buffer[1].id

\* the area of a relation with a negative id has been written
C5_Witness ==
    /\ pc = "done"
    /\ input.kind = "relation"
    /\ input.id < 0
    /\ out_buffer[1].id = input.id * 2 + 1

(***************************************************************************)
(* C6.  For a relation assembled with success: if it has a tag whose key   *)
(* is none of type, created_by, source, note, test:id, test:section, the   *)
(* tags of the area are the tags of the relation without the type tags;    *)
(* otherwise they are the key/value pairs found on every origin way of the *)
(* outer rings (the tags of that way if there is only one).                *)
(***************************************************************************)
TagsWithoutType(tags) ==
    Flatten([k \in 1..Len(tags) |-> IF tags[k][1] = "type" THEN <<>> ELSE <<tags[k]>>])

HasSignificantTag(tags) ==
    \E k \in 1..Len(tags) :
        tags[k][1] \notin {"type", "created_by", "source", "note", "test:id", "test:section"}

\* the member ways that segments of the outer rings come from
OuterOriginWays ==
    {input.members[k].way : k \in {j \in 1..Len(input.members) :
        \E o \in Range(m_outer_rings) :
            \E m \in 1..Len(m_rings[o].segments) :
                m_rings[o].segments[m].way = input.members[j].way.id}}

\* the relation of the input has been assembled and no inner way yet
RelationAssembled ==
    /\ input.kind = "relation"
    /\ stage2_ret = "true"
    /\ pc \in {"rescue", "done"}
    /\ Len(out_buffer) = 1
    /\ Len(calls) = 1

C6_RelationTags ==
    RelationAssembled =>
        LET tags == out_buffer[1].taglists[1]
            ways == OuterOriginWays
        IN IF HasSignificantTag(input.tags)
           THEN tags = TagsWithoutType(input.tags)
           ELSE /\ Range(tags) = {t \in UNION {Range(w.tags) : w \in ways} :
                                     \A w \in ways : t \in Range(w.tags)}
                /\ Cardinality(ways) = 1 => \A w \in ways : tags = w.tags

\* a relation without significant tags, two origin ways that agree on one
\* tag and disagree on another
C6_Witness ==
    /\ RelationAssembled
    /\ pc = "done"
    /\ ~HasSignificantTag(input.tags)
    /\ Cardinality(OuterOriginWays) = 2
    /\ out_buffer[1].taglists[1] # <<>>
    /\ \E w \in OuterOriginWays : Range(w.tags) \ Range(out_buffer[1].taglists[1]) # {}

(***************************************************************************)
(* C7.  Every inner ring written under an outer ring lies in that outer    *)
(* ring, and of the outer rings of the area that contain it, it is under   *)
(* one of the smallest area; also when there is exactly one outer ring.    *)
(***************************************************************************)
Cross(a, b, c) == (b[1] - a[1]) * (c[2] - a[2]) - (b[2] - a[2]) * (c[1] - a[1])

Between(a, b, c) ==
    /\ (IF a[1] < b[1] THEN a[1] ELSE b[1]) <= c[1]
    /\ c[1] <= (IF a[1] < b[1] THEN b[1] ELSE a[1])
    /\ (IF a[2] < b[2] THEN a[2] ELSE b[2]) <= c[2]
    /\ c[2] <= (IF a[2] < b[2] THEN b[2] ELSE a[2])

\* c lies on the segment from a to b
OnSegment(a, b, c) == Cross(a, b, c) = 0 /\ Between(a, b, c)

OnBoundary(t, nodes) ==
    \E k \in 1..(Len(nodes) - 1) : OnSegment(nodes[k].loc, nodes[k + 1].loc, t)

\* the edge from a to b crosses the horizontal ray from t to the right
RayCrosses(t, a, b) ==
    /\ (a[2] > t[2]) # (b[2] > t[2])
    /\ IF b[2] > a[2]
       THEN (t[1] - a[1]) * (b[2] - a[2]) < (b[1] - a[1]) * (t[2] - a[2])
       ELSE (t[1] - a[1]) * (b[2] - a[2]) > (b[1] - a[1]) * (t[2] - a[2])

StrictlyInside(t, nodes) ==
    /\ ~OnBoundary(t, nodes)
    /\ Cardinality({k \in 1..(Len(nodes) - 1) :
                       RayCrosses(t, nodes[k].loc, nodes[k + 1].loc)}) % 2 = 1

\* the closed node sequence in lies in the closed node sequence out
RingInRing(in, out) ==
    /\ \A k \in 1..Len(in) : StrictlyInside(in[k].loc, out) \/ OnBoundary(in[k].loc, out)
    /\ \E k \in 1..Len(in) : StrictlyInside(in[k].loc, out)

\* the outer ring item an inner ring item of an area is written under
OuterOf(a, k) == SetMax({j \in OuterItems(a) : j < k})

SegmentsMeet(a, b, c, d) ==
    \/ OnSegment(a, b, c) \/ OnSegment(a, b, d)
    \/ OnSegment(c, d, a) \/ OnSegment(c, d, b)
    \/ /\ (Cross(a, b, c) > 0) # (Cross(a, b, d) > 0)
       /\ (Cross(c, d, a) > 0) # (Cross(c, d, b) > 0)
       /\ Cross(a, b, c) # 0 /\ Cross(a, b, d) # 0
       /\ Cross(c, d, a) # 0 /\ Cross(c, d, b) # 0

IsSimpleClosedWay(way) ==
    LET nodes == way.nodes
        n == Len(nodes) - 1
        following(k) == (k % n) + 1
    IN /\ n >= 3
       /\ nodes[1] = nodes[n + 1]
       /\ \A j, k \in 1..n : j # k =>
              /\ nodes[j].ref # nodes[k].ref
              /\ nodes[j].loc # nodes[k].loc
       /\ \A j, k \in 1..n : j < k =>
              IF following(j) = k
              THEN ~OnSegment(nodes[j].loc, nodes[k].loc, nodes[k + 1].loc)
                   /\ ~OnSegment(nodes[k].loc, nodes[k + 1].loc, nodes[j].loc)
              ELSE IF following(k) = j
              THEN ~OnSegment(nodes[k].loc, nodes[j].loc, nodes[j + 1].loc)
                   /\ ~OnSegment(nodes[j].loc, nodes[j + 1].loc, nodes[k].loc)
              ELSE ~SegmentsMeet(nodes[j].loc, nodes[j + 1].loc,
                                 nodes[k].loc, nodes[k + 1].loc)

\* the closed node sequences a and b go round the same cycle in the same
\* direction
IsRotation(a, b) ==
    /\ Len(a) = Len(b)
    /\ Len(a) >= 2
    /\ a[1] = a[Len(a)]
    /\ b[1] = b[Len(b)]
    /\ \E r \in 0..(Len(a) - 2) :
          \A k \in 1..(Len(a) - 1) : a[k] = b[((k - 1 + r) % (Len(a) - 1)) + 1]

SameGeometry(s, t) ==
    {s.first.loc, s.second.loc} = {t.first.loc, t.second.loc}

Copies(list, s) == Cardinality({k \in 1..Len(list) : SameGeometry(list[k], s)})

\* the segment list of the object of the input has been prepared
ListPrepared ==
    /\ Len(calls) = 1
    /\ Len(out_buffer) = 1
    /\ pc \notin {"call", "stage2"}

C9_OddCopiesRemain ==
    ListPrepared =>
        LET extracted == extract_segments_from_ways(input.members)
        IN /\ \A k \in 1..Len(extracted) :
                  Copies(m_segment_list, extracted[k]) = Copies(extracted, extracted[k]) % 2
           /\ \A k \in 1..Len(m_segment_list) : Copies(extracted, m_segment_list[k]) >= 1
           /\ \A k \in 1..(Len(m_segment_list) - 1) :
                  SegLess(m_segment_list[k], m_segment_list[k + 1])
           /\ \A j, k \in 1..Len(m_segment_list) :
                  j # k => ~SegEq(m_segment_list[j], m_segment_list[k])
           /\ erase_duplicate_segments(m_segment_list) = m_segment_list

\* a segment extracted three times and a segment extracted twice
C9_Witness ==
    /\ ListPrepared
    /\ \E k \in 1..Len(extract_segments_from_ways(input.members)) :
          Copies(extract_segments_from_ways(input.members),
                 extract_segments_from_ways(input.members)[k]) = 3
    /\ \E k \in 1..Len(extract_segments_from_ways(input.members)) :
          Copies(extract_segments_from_ways(input.members),
                 extract_segments_from_ways(input.members)[k]) = 2

(***************************************************************************)
(* C10.  Two segments that share an endpoint are never counted as          *)
(* intersecting: no pair found by the scan and no intersection report      *)
(* names two segments with a common endpoint, and when stage 2 fails on an *)
(* intersection some two segments without a common endpoint meet.          *)
(***************************************************************************)
SharedEndpoint(s, t) ==
    {s.first.loc, s.second.loc} \cap {t.first.loc, t.second.loc} # {}

IntersectionFailure ==
    /\ ListPrepared
    /\ stage2_ret = "false"
    /\ pc = "done"
    /\ m_rings = <<>>

C10_SharedEndpointNoIntersection ==
    ListPrepared =>
        /\ \A k \in 1..Len(IntersectingPairs(m_segment_list)) :
              ~SharedEndpoint(m_segment_list[IntersectingPairs(m_segment_list)[k][1]],
                              m_segment_list[IntersectingPairs(m_segment_list)[k][2]])
        /\ \A r \in Range(ReportsOfType(LatestReports, "intersection")) :
              {r.p1, r.p2} \cap {r.other[2], r.other[3]} = {}
        /\ IntersectionFailure =>
              \E j, k \in 1..Len(m_segment_list) :
                  /\ ~SharedEndpoint(m_segment_list[j], m_segment_list[k])
                  /\ SegmentsMeet(m_segment_list[j].first.loc, m_segment_list[j].second.loc,
                                  m_segment_list[k].first.loc, m_segment_list[k].second.loc)

\* two rings that touch in one vertex have been assembled: segments of
\* different ways share an endpoint and overlap in y
C10_Witness ==
    /\ ListPrepared
    /\ stage2_ret = "true"
    /\ pc = "done"
    /\ \E j, k \in 1..Len(m_segment_list) :
          /\ j < k
          /\ m_segment_list[j].way # m_segment_list[k].way
          /\ SharedEndpoint(m_segment_list[j], m_segment_list[k])
          /\ ~outside_x_range(m_segment_list[k], m_segment_list[j])
          /\ y_range_overlap(m_segment_list[j], m_segment_list[k])

(***************************************************************************)
(* C11.  An area of an inner member way is written only after stage2 of    *)
(* the relation has succeeded without a role mismatch: when stage2 failed  *)
(* or a role report was made for the relation, the buffer holds the record *)
(* of the relation and no other.                                           *)
(***************************************************************************)
RoleReportsMade ==
    ReportsOfType(reports, "role_should_be_outer")
    \o ReportsOfType(reports, "role_should_be_inner")

\* stage2 of the invocation that wrote the record a has succeeded: the
\* record has got its tag list
Assembled(a) == a.taglists # <<>>

\* a member of the relation that the loop over the members would give an
\* area of its own
RescuableMembers ==
    {k \in 1..Len(input.members) :
        InnerWayDiffers(input.members[k], out_buffer[1].taglists[1])}

C11_RescueOnlyWithoutMismatch ==
    input.kind = "relation" =>
        /\ (pc = "rescue" \/ Len(calls) > 1 \/ Len(out_buffer) > 1) =>
              /\ Assembled(out_buffer[1])
              /\ RoleReportsMade = <<>>
              /\ Len(calls) = 1 => m_inner_outer_mismatches = 0
        /\ (pc = "done" /\ (RoleReportsMade # <<>> \/ ~Assembled(out_buffer[1]))) =>
              Len(out_buffer) = 1

\* a relation with a role mismatch has been assembled, and one of its
\* members is an inner way whose tags differ from those of the area
C11_Witness ==
    /\ input.kind = "relation"
    /\ pc = "done"
    /\ Assembled(out_buffer[1])
    /\ RoleReportsMade # <<>>
    /\ RescuableMembers # {}
    /\ Len(out_buffer) = 1

(***************************************************************************)
(* C12.  When the loop over the members has run, the records after that of *)
(* the relation are, in member order, one way area for each member that is *)
(* an inner closed way with a tag that is not ignored and whose set of     *)
(* such tags differs from that of the area of the relation.                *)
(***************************************************************************)
SignificantTags(tags) ==
    {tags[k] : k \in {j \in 1..Len(tags) :
        tags[j][1] \notin {"created_by", "source", "note", "test:id", "test:section"}}}

\* the members the claim gives an area of their own, in member order
MembersWithOtherTags ==
    SelectSeq([k \in 1..Len(input.members) |-> input.members[k]],
              LAMBDA m : /\ m.role = "inner"
                         /\ m.way.nodes[1].ref = m.way.nodes[Len(m.way.nodes)].ref
                         /\ SignificantTags(m.way.tags) # {}
                         /\ SignificantTags(m.way.tags)
                                # SignificantTags(out_buffer[1].taglists[1]))

\* the relation has been assembled and the loop over its members has run
RescueDone ==
    /\ input.kind = "relation"
    /\ pc = "done"
    /\ m_problem_reporter
    /\ Assembled(out_buffer[1])
    /\ RoleReportsMade = <<>>

C12_RescueIffTagSetsDiffer ==
    RescueDone =>
        /\ Len(out_buffer) = 1 + Len(MembersWithOtherTags)
        /\ \A k \in 1..Len(MembersWithOtherTags) :
              out_buffer[k + 1].id = MembersWithOtherTags[k].way.id * 2

(***************************************************************************)
(* C13.  When the prepared segment list of the source is empty, the        *)
(* invocation makes no call on the reporter and leaves one record, that of *)
(* the source, without rings.                                              *)
(***************************************************************************)
PreparedListEmpty ==
    PrepareSegments(extract_segments_from_ways(input.members), "fwd") = <<>>

C13_EmptyListOneRecord ==
    (PreparedListEmpty /\ pc = "done") =>
        /\ reports = <<>>
        /\ Len(out_buffer) = 1
        /\ out_buffer[1].rings = <<>>

Entered == pc = "stage2"

C15_Reinitialised ==
    /\ Entered =>
          /\ m_rings = <<>>
          /\ m_outer_rings = <<>>
          /\ m_inner_rings = <<>>
          /\ m_inner_outer_mismatches = 0
          /\ m_object_id = IF Cur.source.kind = "way" THEN Cur.source.members[1].way.id
                           ELSE Cur.source.id
          /\ m_segment_list = extract_segments_from_ways(Cur.source.members)
    /\ (pc = "done" /\ Len(history) = 2 /\ history[1].input = input) =>
          /\ history[1].out_buffer = out_buffer
          /\ history[1].reports = reports

C15_ReinitialisedAndFlagsKept ==
    /\ []C15_Reinitialised
    /\ [][m_problem_reporter' = m_problem_reporter /\ m_debug' = m_debug]_vars

\* a source has been assembled on the fresh instance, then another source
\* that left rings behind, then the first source again
C15_Witness ==
    /\ pc = "done"
    /\ Len(history) = 2
    /\ history[1].input = input
    /\ history[2].input # input
    /\ history[2].out_buffer[1].rings # <<>>
    /\ out_buffer[1].rings # <<>>

(***************************************************************************)
(* osmium::diff_handler::apply: the loop over a stream of items that calls *)
(* the callbacks of each handler.                                          *)
(***************************************************************************)
\* the longest stream
MaxStream == 3

\* the number of handlers apply is called with
NumHandlers == 2

ItemTypes == {"node", "way", "relation", "changeset"}

ObjectIds == {1, 2}

Item(type, id) == [type |-> type, id |-> id]

Streams ==
    UNION {[1..n -> {Item(t, i) : t \in ItemTypes, i \in ObjectIds}] : n \in 0..MaxStream}

\* one callback of one handler; the lifecycle callbacks get no items
Callback(handler, name, p, c, n) ==
    [handler |-> handler, name |-> name, prev |-> p, curr |-> c, next |-> n]

\* the version of apply_before_and_after_recurse without after_ways
BeforeAndAfterWithoutAfterWays(last, current, handler) ==
    (CASE last = "undefined" -> <<Callback(handler, "init", 0, 0, 0)>>
       [] last = "node" -> <<Callback(handler, "after_nodes", 0, 0, 0)>>
       [] last = "relation" -> <<Callback(handler, "after_relations", 0, 0, 0)>>
       [] OTHER -> <<>>)
    \o (CASE current = "undefined" -> <<Callback(handler, "done", 0, 0, 0)>>
          [] current = "node" -> <<Callback(handler, "before_nodes", 0, 0, 0)>>
          [] current = "way" -> <<Callback(handler, "before_ways", 0, 0, 0)>>
          [] current = "relation" -> <<Callback(handler, "before_relations", 0, 0, 0)>>
          [] OTHER -> <<>>)

\* apply_before_and_after_recurse for one handler: the two switches
BeforeAndAfter(last, current, handler) ==
    (CASE last = "undefined" -> <<Callback(handler, "init", 0, 0, 0)>>
       [] last = "node" -> <<Callback(handler, "after_nodes", 0, 0, 0)>>
       [] last = "way" -> <<Callback(handler, "after_ways", 0, 0, 0)>>
       [] last = "relation" -> <<Callback(handler, "after_relations", 0, 0, 0)>>
       [] OTHER -> <<>>)
    \o (CASE current = "undefined" -> <<Callback(handler, "done", 0, 0, 0)>>
          [] current = "node" -> <<Callback(handler, "before_nodes", 0, 0, 0)>>
          [] current = "way" -> <<Callback(handler, "before_ways", 0, 0, 0)>>
          [] current = "relation" -> <<Callback(handler, "before_relations", 0, 0, 0)>>
          [] OTHER -> <<>>)

\* apply_before_and_after_recurse for the handlers in their order
apply_before_and_after_recurse(last, current) ==
    Flatten([h \in 1..NumHandlers |-> BeforeAndAfter(last, current, h)])

SameObject(items, j, k) == items[j].type = items[k].type /\ items[j].id = items[k].id

\* apply_item_recurse that hands on prev as it gets it
ItemCallbackWithRawPrev(items, p, i, n, handler) ==
    Callback(handler, items[i].type, p, i, IF SameObject(items, n, i) THEN n ELSE i)

\* apply_item_recurse for one handler, for an item of a known type
ItemCallback(items, p, i, n, handler) ==
    Callback(handler, items[i].type,
             IF SameObject(items, p, i) THEN p ELSE i,
             i,
             IF SameObject(items, n, i) THEN n ELSE i)

\* the switch of apply_item_recurse throws for any other type
ItemThrows(items, i) == items[i].type \notin {"node", "way", "relation"}

\* apply_item_recurse that unpacks the handlers from the last to the first
apply_item_recurse_last_first(items, p, i, n) ==
    IF ItemThrows(items, i) THEN <<>>
    ELSE [h \in 1..NumHandlers |-> ItemCallback(items, p, i, n, NumHandlers + 1 - h)]

\* apply_item_recurse for the handlers in their order: the first handler
\* throws for an item of an unknown type
apply_item_recurse(items, p, i, n) ==
    IF ItemThrows(items, i) THEN <<>>
    ELSE [h \in 1..NumHandlers |-> ItemCallback(items, p, i, n, h)]

\* the assembler is not in use
AssemblerIdle ==
    /\ input = [kind |-> "none"]
    /\ calls = <<>>
    /\ pc = "idle"
    /\ pos = 0
    /\ stage2_ret = "none"
    /\ m_problem_reporter = FALSE
    /\ m_debug = FALSE
    /\ m_segment_list = <<>>
    /\ m_rings = <<>>
    /\ m_object_id = 0
    /\ m_outer_rings = <<>>
    /\ m_inner_rings = <<>>
    /\ m_inner_outer_mismatches = 0
    /\ out_buffer = <<>>
    /\ reports = <<>>
    /\ reports_before = 0
    /\ schedule = <<>>
    /\ history = <<>>
    /\ segment_ties = "unset"
    /\ ring_ties = "unset"

\* apply(it, end, handlers...) has been called: it, prev and next are at
\* the first item
DiffInit ==
    /\ AssemblerIdle
    /\ TaskIdle
    /\ stream \in Streams
    /\ it = 1
    /\ prev = 1
    /\ next = 1
    /\ last_type = "undefined"
    /\ apply_pc = "loop"
    /\ handler_calls = <<>>

\* an apply that calls init and done of every handler when it finds the
\* stream empty
ApplyEndWithInitAndDone ==
    /\ apply_pc = "loop"
    /\ it = Len(stream) + 1
    /\ apply_pc' = "returned"
    /\ handler_calls' =
          handler_calls \o apply_before_and_after_recurse("undefined", "undefined")
    /\ UNCHANGED <<stream, it, prev, next, last_type, assembler_vars, task_vars>>

\* the loop ends at it = end: only when the stream is empty
ApplyEnd ==
    /\ apply_pc = "loop"
    /\ it = Len(stream) + 1
    /\ apply_pc' = "returned"
    /\ UNCHANGED <<stream, it, prev, next, last_type, handler_calls, assembler_vars, task_vars>>

\* the head of the loop body: the callbacks at a change of the type
ApplyBoundary ==
    /\ apply_pc = "loop"
    /\ it <= Len(stream)
    /\ IF last_type # stream[it].type
       THEN /\ handler_calls' =
                  handler_calls \o apply_before_and_after_recurse(last_type, stream[it].type)
            /\ last_type' = stream[it].type
       ELSE UNCHANGED <<handler_calls, last_type>>
    /\ apply_pc' = "item"
    /\ UNCHANGED <<stream, it, prev, next, assembler_vars, task_vars>>

\* the rest of the loop body when the item is not the last one
ApplyItem ==
    /\ apply_pc = "item"
    /\ next + 1 # Len(stream) + 1
    /\ next' = next + 1
    /\ handler_calls' = handler_calls \o apply_item_recurse(stream, prev, it, next + 1)
    /\ IF ItemThrows(stream, it)
       THEN apply_pc' = "thrown" /\ UNCHANGED <<it, prev>>
       ELSE apply_pc' = "loop" /\ prev' = it /\ it' = next + 1
    /\ UNCHANGED <<stream, last_type, assembler_vars, task_vars>>

\* the rest of the loop body when the item is the last one
ApplyLastItem ==
    /\ apply_pc = "item"
    /\ next + 1 = Len(stream) + 1
    /\ next' = next + 1
    /\ IF ItemThrows(stream, it)
       THEN apply_pc' = "thrown" /\ UNCHANGED handler_calls
       ELSE /\ apply_pc' = "returned"
            /\ handler_calls' =
                  handler_calls \o apply_item_recurse(stream, prev, it, it)
                  \o apply_before_and_after_recurse(last_type, "undefined")
    /\ UNCHANGED <<stream, it, prev, last_type, assembler_vars, task_vars>>

DiffNext ==
    \/ ApplyEnd
    \/ ApplyBoundary
    \/ ApplyItem
    \/ ApplyLastItem

DiffSpec == DiffInit /\ [][DiffNext]_vars

(***************************************************************************)
(* Reference notions for the callbacks of one handler.                     *)
(***************************************************************************)
CallsOf(h) == SelectSeq(handler_calls, LAMBDA c : c.handler = h)

NamesOf(h) == [k \in 1..Len(CallsOf(h)) |-> CallsOf(h)[k].name]

Plural(type) == type \o "s"

IsItemName(name) == name \in ItemTypes

\* the type an item callback, a before_ or an after_ callback belongs to
BeforeName(type) == "before_" \o Plural(type)

AfterName(type) == "after_" \o Plural(type)

Occurrences(names, name) == Cardinality({k \in 1..Len(names) : names[k] = name})

OnlyObjects == \A k \in 1..Len(stream) : stream[k].type \in {"node", "way", "relation"}

(***************************************************************************)
(* C16.  For a stream of nodes, ways and relations that is not empty, each *)
(* handler gets init once and first, done once and last, and every item    *)
(* callback of a type stands in a run of item callbacks of that type that  *)
(* begins after the before_ callback of the type and ends at its after_    *)
(* callback.                                                               *)
(***************************************************************************)
\* the callback at k of the names stands where the lifecycle allows it
InOrder(names, k) ==
    \E t \in {"node", "way", "relation"} :
        \/ /\ names[k] = BeforeName(t)
           /\ names[k - 1] = "init" \/ \E u \in ItemTypes \ {t} : names[k - 1] = AfterName(u)
           /\ names[k + 1] = t
        \/ /\ names[k] = t
           /\ names[k - 1] \in {BeforeName(t), t}
           /\ names[k + 1] \in {t, AfterName(t)}
        \/ /\ names[k] = AfterName(t)
           /\ names[k - 1] = t
           /\ names[k + 1] = "done" \/ \E u \in ItemTypes \ {t} : names[k + 1] = BeforeName(u)

Lifecycle(names) ==
    /\ Len(names) >= 5
    /\ names[1] = "init"
    /\ names[Len(names)] = "done"
    /\ Occurrences(names, "init") = 1
    /\ Occurrences(names, "done") = 1
    /\ \A k \in 2..(Len(names) - 1) : InOrder(names, k)

C16_LifecycleOrder ==
    (apply_pc = "returned" /\ stream # <<>> /\ OnlyObjects) =>
        \A h \in 1..NumHandlers :
            /\ Lifecycle(NamesOf(h))
            /\ Cardinality({k \in 1..Len(NamesOf(h)) : IsItemName(NamesOf(h)[k])}) = Len(stream)

\* apply has returned for a stream that changes its type and comes back to
\* a type it had before
C16_Witness ==
    /\ apply_pc = "returned"
    /\ OnlyObjects
    /\ Len(stream) = 3
    /\ stream[1].type = stream[3].type
    /\ stream[1].type # stream[2].type

(***************************************************************************)
(* C17.  For a stream with changesets apply runs to its end: each handler  *)
(* gets before_changesets and after_changesets, and done as its last       *)
(* callback.                                                               *)
(***************************************************************************)
HasChangeset == \E k \in 1..Len(stream) : stream[k].type = "changeset"

C17_ChangesetLifecycle ==
    (HasChangeset /\ apply_pc \in {"returned", "thrown"}) =>
        /\ apply_pc = "returned"
        /\ \A h \in 1..NumHandlers :
              /\ Occurrences(NamesOf(h), "before_changesets") >= 1
              /\ Occurrences(NamesOf(h), "after_changesets") >= 1
              /\ NamesOf(h)[Len(NamesOf(h))] = "done"

(***************************************************************************)
(* C18.  The item callback for the item at position i gets item i as curr, *)
(* item i-1 as prev if there is one of the same type and id and item i     *)
(* otherwise, and item i+1 as next if there is one of the same type and id *)
(* and item i otherwise; when apply returns each handler has got each item *)
(* once, in stream order.                                                  *)
(***************************************************************************)
Window(i) ==
    [prev |-> IF i > 1 /\ stream[i - 1] = stream[i] THEN i - 1 ELSE i,
     curr |-> i,
     next |-> IF i < Len(stream) /\ stream[i + 1] = stream[i] THEN i + 1 ELSE i]

ItemCallsOf(h) == SelectSeq(CallsOf(h), LAMBDA c : IsItemName(c.name))

C18_ThreeItemWindow ==
    /\ \A k \in 1..Len(handler_calls) :
          IsItemName(handler_calls[k].name) =>
              /\ handler_calls[k].curr \in 1..Len(stream)
              /\ handler_calls[k].name = stream[handler_calls[k].curr].type
              /\ handler_calls[k].prev = Window(handler_calls[k].curr).prev
              /\ handler_calls[k].next = Window(handler_calls[k].curr).next
    /\ apply_pc = "returned" =>
          \A h \in 1..NumHandlers :
              /\ Len(ItemCallsOf(h)) = Len(stream)
              /\ \A k \in 1..Len(stream) : ItemCallsOf(h)[k].curr = k

\* apply has returned for three versions of one object
C18_Witness ==
    /\ apply_pc = "returned"
    /\ Len(stream) = 3
    /\ stream[1] = stream[2]
    /\ stream[2] = stream[3]
    /\ \E k \in 1..Len(handler_calls) :
          /\ handler_calls[k].curr = 2
          /\ handler_calls[k].prev = 1
          /\ handler_calls[k].next = 3

(***************************************************************************)
(* osmium::thread::CheckedTask: an owning thread that calls                *)
(* check_for_exception and close and then destroys the object, and the     *)
(* thread of the task.                                                     *)
(***************************************************************************)
\* the most calls of check_for_exception and close the owner makes
MaxOwnerCalls == 3

\* what the task does: operator() returns true or false, or throws
TaskOutcomes == {"true", "false", "exception"}

OwnerCall(op, how) == [op |-> op, how |-> how]

\* std::future::get on a ready future: returns the value or rethrows
GetOutcome(state) == IF state = "exception" THEN "rethrown" ELSE "returned"

\* the constructor has run: the thread is started and the future taken
TaskInit ==
    /\ AssemblerIdle
    /\ DiffIdle
    /\ m_thread = "joinable"
    /\ m_future = "valid"
    /\ shared_state = "pending"
    /\ worker = "running"
    /\ owner = "idle"
    /\ owner_calls = <<>>
    /\ joins = 0
    /\ join_errors = 0

\* the packaged task runs T::operator() and stores its result
TaskRuns ==
    /\ worker = "running"
    /\ \E outcome \in TaskOutcomes : shared_state' = outcome
    /\ worker' = "stored"
    /\ UNCHANGED <<m_thread, m_future, owner, owner_calls, joins, join_errors,
                   assembler_vars, diff_vars>>

\* the thread function returns
ThreadExits ==
    /\ worker = "stored"
    /\ worker' = "exited"
    /\ UNCHANGED <<m_thread, m_future, shared_state, owner, owner_calls, joins, join_errors,
                   assembler_vars, diff_vars>>

CanCall == owner = "idle" /\ Len(owner_calls) < MaxOwnerCalls

\* a check_for_exception that gets the result of every valid future, as
\* close does: it waits until the result is stored
check_for_exception_waiting ==
    /\ CanCall
    /\ IF m_future = "valid"
       THEN /\ shared_state # "pending"
            /\ m_future' = "invalid"
            /\ owner_calls' = Append(owner_calls, OwnerCall("check", GetOutcome(shared_state)))
       ELSE /\ m_future' = m_future
            /\ owner_calls' = Append(owner_calls, OwnerCall("check", "returned"))
    /\ UNCHANGED <<m_thread, shared_state, worker, owner, joins, join_errors,
                   assembler_vars, diff_vars>>

\* check_for_exception: get() only if the future is valid and ready
check_for_exception ==
    /\ CanCall
    /\ IF m_future = "valid" /\ shared_state # "pending"
       THEN /\ m_future' = "invalid"
            /\ owner_calls' = Append(owner_calls, OwnerCall("check", GetOutcome(shared_state)))
       ELSE /\ m_future' = m_future
            /\ owner_calls' = Append(owner_calls, OwnerCall("check", "returned"))
    /\ UNCHANGED <<m_thread, shared_state, worker, owner, joins, join_errors,
                   assembler_vars, diff_vars>>

\* close is called
CloseBegins ==
    /\ CanCall
    /\ owner' = IF m_future = "valid" THEN "close_get" ELSE "close_join"
    /\ UNCHANGED <<m_thread, m_future, shared_state, worker, owner_calls, joins, join_errors,
                   assembler_vars, diff_vars>>

\* a close whose get() leaves the future valid, as the get() of a
\* std::shared_future does
CloseGetsShared ==
    /\ owner = "close_get"
    /\ shared_state # "pending"
    /\ m_future' = m_future
    /\ IF shared_state = "exception"
       THEN /\ owner' = "idle"
            /\ owner_calls' = Append(owner_calls, OwnerCall("close", "rethrown"))
       ELSE /\ owner' = "close_join"
            /\ owner_calls' = owner_calls
    /\ UNCHANGED <<m_thread, shared_state, worker, joins, join_errors,
                   assembler_vars, diff_vars>>

\* close: m_future.get() returns or throws once the result is stored; when
\* it throws, close is left
CloseGets ==
    /\ owner = "close_get"
    /\ shared_state # "pending"
    /\ m_future' = "invalid"
    /\ IF shared_state = "exception"
       THEN /\ owner' = "idle"
            /\ owner_calls' = Append(owner_calls, OwnerCall("close", "rethrown"))
       ELSE /\ owner' = "close_join"
            /\ owner_calls' = owner_calls
    /\ UNCHANGED <<m_thread, shared_state, worker, joins, join_errors,
                   assembler_vars, diff_vars>>

\* a join that is made whether or not the thread is joinable
JoinUnguarded ==
    /\ worker = "exited"
    /\ m_thread' = "joined"
    /\ IF m_thread = "joinable"
       THEN joins' = joins + 1 /\ join_errors' = join_errors
       ELSE joins' = joins /\ join_errors' = join_errors + 1

\* if (m_thread.joinable()) m_thread.join(): join returns when the thread
\* has exited
JoinIfJoinable ==
    IF m_thread = "joinable"
    THEN /\ worker = "exited"
         /\ m_thread' = "joined"
         /\ joins' = joins + 1
         /\ join_errors' = join_errors
    ELSE UNCHANGED <<m_thread, joins, join_errors>>

\* close: the join, and the return
CloseJoins ==
    /\ owner = "close_join"
    /\ JoinIfJoinable
    /\ owner' = "idle"
    /\ owner_calls' = Append(owner_calls, OwnerCall("close", "returned"))
    /\ UNCHANGED <<m_future, shared_state, worker, assembler_vars, diff_vars>>

\* the destructor is called
DestructorBegins ==
    /\ owner = "idle"
    /\ owner' = "destructor"
    /\ UNCHANGED <<m_thread, m_future, shared_state, worker, owner_calls, joins, join_errors,
                   assembler_vars, diff_vars>>

\* a destructor that detaches the thread instead of joining it
DestructorDetaches ==
    /\ owner = "destructor"
    /\ m_thread' = IF m_thread = "joinable" THEN "detached" ELSE m_thread
    /\ owner' = "destroyed"
    /\ UNCHANGED <<m_future, shared_state, worker, owner_calls, joins, join_errors,
                   assembler_vars, diff_vars>>

\* the destructor: the join, and the return
DestructorJoins ==
    /\ owner = "destructor"
    /\ JoinIfJoinable
    /\ owner' = "destroyed"
    /\ UNCHANGED <<m_future, shared_state, worker, owner_calls, assembler_vars, diff_vars>>

TaskNext ==
    \/ TaskRuns
    \/ ThreadExits
    \/ check_for_exception
    \/ CloseBegins
    \/ CloseGets
    \/ CloseJoins
    \/ DestructorBegins
    \/ DestructorJoins

TaskSpec == TaskInit /\ [][TaskNext]_vars

\* fair scheduling: a thread that can take its next step takes it, and a
\* get() or join() that can return returns; whether T::operator() comes to
\* an end and what the owner calls is left open
TaskFairness ==
    /\ WF_vars(ThreadExits)
    /\ WF_vars(CloseGets)
    /\ WF_vars(CloseJoins)
    /\ WF_vars(DestructorJoins)

TaskFairSpec == TaskInit /\ [][TaskNext]_vars /\ TaskFairness

(***************************************************************************)
(* C19.  join is called on the thread at most once and never when the      *)
(* thread is not joinable; when the destructor has returned, the thread    *)
(* has exited and has been joined, once, whatever the owner called before  *)
(* and whatever the task did.                                              *)
(***************************************************************************)
C19_JoinedOnceAtDestruction ==
    /\ joins <= 1
    /\ join_errors = 0
    /\ owner = "destroyed" =>
          /\ worker = "exited"
          /\ m_thread = "joined"
          /\ joins = 1

\* the object has been destroyed after a close that rethrew the exception
\* of the task
C19_Witness ==
    /\ owner = "destroyed"
    /\ shared_state = "exception"
    /\ \E k \in 1..Len(owner_calls) : owner_calls[k] = OwnerCall("close", "rethrown")

(***************************************************************************)
(* C20.  When close has finished, by returning or by rethrowing, the task  *)
(* has stored its result and the thread has exited and is not joinable.    *)
(***************************************************************************)
CloseFinished ==
    /\ owner = "idle"
    /\ owner_calls # <<>>
    /\ owner_calls[Len(owner_calls)].op = "close"

C20_CloseLeavesThreadJoined ==
    CloseFinished =>
        /\ shared_state # "pending"
        /\ worker = "exited"
        /\ m_thread = "joined"

(***************************************************************************)
(* C21.  check_for_exception never waits for the task: the owner can make  *)
(* the call whatever the task has done so far.  Made while the result is   *)
(* not stored it returns and leaves the future and the result as they      *)
(* are; made on a valid future whose result is the exception of the task   *)
(* it rethrows; made after the task returned true or false it returns.     *)
(***************************************************************************)
CheckCalled(how) == owner_calls' = Append(owner_calls, OwnerCall("check", how))

CheckStep ==
    \A how \in {"returned", "rethrown"} :
        CheckCalled(how) =>
            /\ shared_state = "pending" =>
                  /\ how = "returned"
                  /\ m_future' = m_future
                  /\ shared_state' = shared_state
            /\ (shared_state = "exception" /\ m_future = "valid") => how = "rethrown"
            /\ shared_state \in {"true", "false"} => how = "returned"

C21_CheckNeverWaits ==
    /\ [](CanCall => ENABLED check_for_exception)
    /\ [][CheckStep]_vars

\* a check made while the task ran has returned, and the next one has
\* rethrown the exception of the task
C21_Witness ==
    /\ Len(owner_calls) >= 2
    /\ owner_calls[1] = OwnerCall("check", "returned")
    /\ owner_calls[2] = OwnerCall("check", "rethrown")

(***************************************************************************)
(* C22.  A ring that is closed after the segment was attached and the      *)
(* sub-ring split off is not merged with another ring, and a closed ring   *)
(* of the ring list keeps its segments for the rest of the ring building.  *)
(***************************************************************************)
\* combine_rings up to the call of possibly_combine_rings_end / _start:
\* segment (already swapped if the test asked for it) added to ring i,
\* has_closed_subring_end / _start called
AttachedAndSplit(rings, i, segment, at_end) ==
    IF at_end
    THEN has_closed_subring_end([rings EXCEPT ![i].segments = Append(@, segment)],
                                i, segment)
    ELSE has_closed_subring_start([rings EXCEPT ![i].segments = <<segment>> \o @],
                                  i, segment)

\* the same for the segment stage2 takes next, attached to the ring
\* add_to_existing_ring finds for it
NextAttachedTo(i) ==
    AttachedAndSplit(m_rings, i,
                     IF MatchCase(m_rings[i], m_segment_list[pos]) \in {"b", "c"}
                     THEN swap_locations(m_segment_list[pos])
                     ELSE m_segment_list[pos],
                     MatchCase(m_rings[i], m_segment_list[pos]) \in {"a", "b"})

\* the merge scan combine_rings makes on the result st of AttachedAndSplit
MergeScan(st, at_end) ==
    IF at_end THEN possibly_combine_rings_end(st.rings, st.idx)
    ELSE possibly_combine_rings_start(st.rings, st.idx)

NextAttaches ==
    /\ pc = "rings"
    /\ pos <= Len(m_segment_list)
    /\ MatchingRings(m_rings, m_segment_list[pos]) # {}

\* the ring at hand is closed when the merge scan is made
ClosesRing(st) == closed(st.rings[st.idx])

NextClosesRing ==
    /\ NextAttaches
    /\ ClosesRing(NextAttachedTo(SetMin(MatchingRings(m_rings, m_segment_list[pos]))))

NextMergeFinds(i) ==
    MergeScan(NextAttachedTo(i),
              MatchCase(m_rings[i], m_segment_list[pos]) \in {"a", "b"}).found

ClosedRingsKept ==
    \A i \in 1..Len(m_rings) :
        closed(m_rings[i]) =>
            \E j \in 1..Len(m_rings') : m_rings'[j].segments = m_rings[i].segments

IsChain(segs) ==
    /\ segs # <<>>
    /\ \A k \in 1..(Len(segs) - 1) : segs[k].second.loc = segs[k + 1].first.loc

C23_RingsAreChains ==
    pc \in {"rings", "classify", "emit"} =>
        \A i \in 1..Len(m_rings) : IsChain(m_rings[i].segments)

\* the ring building has ended with two or more rings, one of them of
\* three or more segments some of which were swapped and some not
C23_Witness ==
    /\ pc = "classify"
    /\ Len(m_rings) >= 2
    /\ \E i \in 1..Len(m_rings) :
          /\ Len(m_rings[i].segments) >= 3
          /\ \E k, l \in 1..Len(m_rings[i].segments) :
                /\ LocLess(m_rings[i].segments[k].second.loc, m_rings[i].segments[k].first.loc)
                /\ LocLess(m_rings[i].segments[l].first.loc, m_rings[i].segments[l].second.loc)

(***************************************************************************)
(* C24.  In every turn of the loop of stage2 the segment is attached to    *)
(* the first ring of the list that is open and has an end at one of the    *)
(* ends of the segment: at the end of the ring if the last location of     *)
(* the ring is (a) the first or (b) the second location of the segment,    *)
(* else at its start if the first location of the ring is (c) the first    *)
(* or (d) the second location of the segment, the segment swapped in the   *)
(* cases (b) and (c).  A ring of the segment alone is added if and only    *)
(* if no open ring has such an end.                                        *)
(***************************************************************************)
EndAt(ring, nr) == last_segment(ring).second.loc = nr.loc

StartAt(ring, nr) == first_segment(ring).first.loc = nr.loc

Takes(ring, s) ==
    /\ ring.segments[1].first.loc # ring.segments[Len(ring.segments)].second.loc
    /\ (EndAt(ring, s.first) \/ EndAt(ring, s.second)
        \/ StartAt(ring, s.first) \/ StartAt(ring, s.second))

\* the segment as it is put into the ring
PutAs(ring, s) ==
    IF EndAt(ring, s.first) THEN s
    ELSE IF EndAt(ring, s.second) THEN swap_locations(s)
    ELSE IF StartAt(ring, s.first) THEN swap_locations(s)
    ELSE s

PutAtEnd(ring, s) == EndAt(ring, s.first) \/ EndAt(ring, s.second)

\* the ring list after the turn for segment s, when ring i takes it
TurnOn(i, s) ==
    CombineMerge(AttachedAndSplit(m_rings, i, PutAs(m_rings[i], s), PutAtEnd(m_rings[i], s)),
                 PutAtEnd(m_rings[i], s)).rings

TurnFor(s, takers) ==
    IF takers = {}
    THEN m_rings' = Append(m_rings, ProtoRing(<<s>>))
    ELSE /\ m_rings' = TurnOn(SetMin(takers), s)
         /\ Len(m_rings') <= Len(m_rings) + 1
         /\ \A i \in 1..Len(m_rings') : m_rings'[i].segments # <<s>>

C24_FirstOpenRingTakes ==
    [][(pc = "rings" /\ pos' = pos + 1) =>
          TurnFor(m_segment_list[pos],
                  {i \in 1..Len(m_rings) : Takes(m_rings[i], m_segment_list[pos])})]_vars

\* a segment has been put swapped into a ring while a closed ring that it
\* is not part of has its first location at an end of the segment
C24_Witness ==
    /\ pc = "rings"
    /\ pos > 1
    /\ \E i, j \in 1..Len(m_rings) :
          /\ i # j
          /\ closed(m_rings[j])
          /\ Len(m_rings[i].segments) >= 2
          /\ \E k \in 1..Len(m_rings[i].segments) :
                m_rings[i].segments[k] = swap_locations(m_segment_list[pos - 1])
          /\ \/ StartAt(m_rings[j], m_segment_list[pos - 1].first)
             \/ StartAt(m_rings[j], m_segment_list[pos - 1].second)

(***************************************************************************)
(* C25.  On the prepared segment list (sorted, equal segments erased, each *)
(* segment with its smaller location first) find_intersections finds the   *)
(* pairs of unequal segments for which calculate_intersection gives a      *)
(* location, all of them and each once, in the order of the loops: the     *)
(* break at the first segment outside the x range and the test of the y    *)
(* ranges leave out no such pair.  It returns true iff there is a pair,    *)
(* and the reporter is told of every pair.                                 *)
(***************************************************************************)
\* the scan over all pairs without break and without the y range test
ExhaustivePairs(list) ==
    {ij \in (1..Len(list)) \X (1..Len(list)) :
        /\ ij[1] < ij[2]
        /\ ~SegEq(list[ij[1]], list[ij[2]])
        /\ calculate_intersection(list[ij[1]], list[ij[2]])}

PairBefore(a, b) == a[1] < b[1] \/ (a[1] = b[1] /\ a[2] < b[2])

ScanIsExhaustive(found, all) ==
    /\ Range(found) = all
    /\ Len(found) = Cardinality(all)
    /\ \A k \in 1..(Len(found) - 1) : PairBefore(found[k], found[k + 1])
    /\ find_intersections(m_segment_list) <=> all # {}
    /\ m_problem_reporter =>
          Len(ReportsOfType(LatestReports, "intersection")) = Cardinality(all)
    /\ (stage2_ret = "false" /\ m_rings = <<>>) <=> all # {}

C25_WindowedScanIsExhaustive ==
    ListPrepared =>
        ScanIsExhaustive(IntersectingPairs(m_segment_list), ExhaustivePairs(m_segment_list))

\* a list with two or more intersecting pairs, and a pair that does not
\* intersect behind the first segment outside the x range of its first
C25_Witness ==
    /\ ListPrepared
    /\ Len(IntersectingPairs(m_segment_list)) >= 2
    /\ \E i, j, k \in 1..Len(m_segment_list) :
          /\ i < j
          /\ j < k
          /\ outside_x_range(m_segment_list[j], m_segment_list[i])

(***************************************************************************)
(* C26.  When stage2 has classified two or more rings of segments that     *)
(* meet in common end points only, a ring is inner iff its smallest node   *)
(* lies in an odd number of the other rings; a ring that touches the       *)
(* smallest node lies around it iff it lies around the ring.  A ring list  *)
(* of one ring has that ring as its one outer ring.                        *)
(***************************************************************************)
\* the two segments have no point in common but end points of both
MeetInEndPointsOnly(s, t) ==
    /\ ~calculate_intersection(s, t)
    /\ OnSegment(s.first.loc, s.second.loc, t.first.loc) => t.first.loc \in {s.first.loc, s.second.loc}
    /\ OnSegment(s.first.loc, s.second.loc, t.second.loc) => t.second.loc \in {s.first.loc, s.second.loc}
    /\ OnSegment(t.first.loc, t.second.loc, s.first.loc) => s.first.loc \in {t.first.loc, t.second.loc}
    /\ OnSegment(t.first.loc, t.second.loc, s.second.loc) => s.second.loc \in {t.first.loc, t.second.loc}

NonIntersecting(list) ==
    \A j, k \in 1..Len(list) : j < k => MeetInEndPointsOnly(list[j], list[k])

\* the location t, a node of the closed node sequence in, lies in the
\* closed node sequence out
LiesIn(t, in, out) ==
    IF OnBoundary(t, out) THEN RingInRing(in, out) ELSE StrictlyInside(t, out)

NestingDepth(rings, i) ==
    Cardinality({j \in 1..Len(rings) :
                    /\ j # i
                    /\ LiesIn(min_node(rings[i]).loc, RingNodes(rings[i]), RingNodes(rings[j]))})

RingsClassified == pc = "emit" /\ NonIntersecting(m_segment_list)

C26_InnerIffOddDepth ==
    RingsClassified =>
        IF Len(m_rings) = 1
        THEN m_rings[1].outer /\ m_outer_rings = <<1>> /\ m_inner_rings = <<>>
        ELSE \A i \in 1..Len(m_rings) :
                (~m_rings[i].outer) <=> NestingDepth(m_rings, i) % 2 = 1

(***************************************************************************)
(* C27.  When stage2 has succeeded, the mismatch counter is the number of  *)
(* segments of outer rings whose role is not "outer" plus the number of    *)
(* segments of inner rings whose role is not "inner", the reporter has     *)
(* been told of each of them (role_should_be_outer for the former,         *)
(* role_should_be_inner for the latter), and for a way the counter is 0.   *)
(***************************************************************************)
MismatchedSegments(ringIdx, role) ==
    {ik \in (1..Len(ringIdx)) \X (1..Len(m_segment_list)) :
        /\ ik[2] <= Len(m_rings[ringIdx[ik[1]]].segments)
        /\ m_rings[ringIdx[ik[1]]].segments[ik[2]].role # role}

RoleCounts(outer, inner) ==
    /\ m_inner_outer_mismatches = Cardinality(outer) + Cardinality(inner)
    /\ Len(ReportsOfType(LatestReports, "role_should_be_outer")) = Cardinality(outer)
    /\ Len(ReportsOfType(LatestReports, "role_should_be_inner")) = Cardinality(inner)

C27_RoleDiagnosticsCounted ==
    pc = "emit" =>
        /\ RoleCounts(MismatchedSegments(m_outer_rings, "outer"),
                      MismatchedSegments(m_inner_rings, "inner"))
        /\ Cur.source.kind = "way" => m_inner_outer_mismatches = 0

(***************************************************************************)
(* C28.  add_rings_to_area writes, for each outer ring in the order of     *)
(* m_outer_rings, the ring and then its inner rings in the order in which  *)
(* they were attached, and commits once per outer ring.  A ring of n       *)
(* segments is written as n + 1 nodes: the first node of its first segment *)
(* and the second node of every segment in ring order; its first and last  *)
(* node are at one location.                                               *)
(***************************************************************************)
RECURSIVE ItemsBefore(_)
\* the number of ring items written before the k-th outer ring
ItemsBefore(k) ==
    IF k = 1 THEN 0
    ELSE ItemsBefore(k - 1) + 1 + Len(m_rings[m_outer_rings[k - 1]].inner)

WrittenAs(item, ring, type) ==
    /\ item.type = type
    /\ Len(item.nodes) = Len(ring.segments) + 1
    /\ item.nodes[1] = ring.segments[1].first
    /\ \A m \in 1..Len(ring.segments) : item.nodes[m + 1] = ring.segments[m].second
    /\ item.nodes[1].loc = item.nodes[Len(item.nodes)].loc

GroupsWritten(before, after) ==
    /\ before.rings = <<>>
    /\ after.commits = before.commits + Len(m_outer_rings)
    /\ Len(after.rings) = ItemsBefore(Len(m_outer_rings) + 1)
    /\ \A k \in 1..Len(m_outer_rings) :
          /\ WrittenAs(after.rings[ItemsBefore(k) + 1], m_rings[m_outer_rings[k]], "outer")
          /\ \A m \in 1..Len(m_rings[m_outer_rings[k]].inner) :
                WrittenAs(after.rings[ItemsBefore(k) + 1 + m],
                          m_rings[m_rings[m_outer_rings[k]].inner[m]], "inner")

C28_RingsWrittenInGroups ==
    [][pc = "emit" => GroupsWritten(out_buffer[Cur.builder], out_buffer'[Cur.builder])]_vars

\* an area of two or more outer rings, one of them with two or more inner
\* rings, has been written
C28_Witness ==
    /\ pc = "done"
    /\ stage2_ret = "true"
    /\ Len(m_outer_rings) >= 2
    /\ \E k \in 1..Len(m_outer_rings) : Len(m_rings[m_outer_rings[k]].inner) >= 2
    /\ Len(LastArea.rings) >= 4

(***************************************************************************)
(* C29: with several handlers, every handler receives the same sequence of *)
(* callbacks (the same lifecycle callbacks and the same item windows, each *)
(* once), and every event reaches handler k before it reaches handler      *)
(* k + 1.                                                                  *)
(***************************************************************************)
\* what a handler sees of a callback: its name and its window
SeenCallback(c) == [name |-> c.name, prev |-> c.prev, curr |-> c.curr, next |-> c.next]

SeenBy(h) == [k \in 1..Len(CallsOf(h)) |-> SeenCallback(CallsOf(h)[k])]

\* the positions in the order of all calls at which handler h is called
PositionsOf(h) ==
    LET at == {k \in 1..Len(handler_calls) : handler_calls[k].handler = h}
    IN  [k \in 1..Cardinality(at) |->
            CHOOSE x \in at : Cardinality({y \in at : y < x}) = k - 1]

InArgumentOrder(first, second) ==
    /\ Len(first) = Len(second)
    /\ \A k \in 1..Len(first) : first[k] < second[k]

C29_HandlersSeeTheSameInOrder ==
    \A h \in 1..(NumHandlers - 1) :
        /\ SeenBy(h) = SeenBy(h + 1)
        /\ InArgumentOrder(PositionsOf(h), PositionsOf(h + 1))

\* apply returned after a stream of three items of two types, two of them
\* versions of one object, was handed to every handler
C29_Witness ==
    /\ apply_pc = "returned"
    /\ Len(stream) = 3
    /\ stream[1].type # stream[3].type
    /\ \E k \in 1..2 : SameObject(stream, k, k + 1)
    /\ \A h \in 1..NumHandlers : Len(ItemCallsOf(h)) = 3
    /\ \A h \in 1..NumHandlers : Len(CallsOf(h)) = 9

(***************************************************************************)
(* C30.  The exception of the task reaches the owner once: the first close *)
(* or the first check_for_exception made when the result is stored,        *)
(* whichever the owner makes first, rethrows it, and every later           *)
(* check_for_exception or close returns; a check_for_exception made before *)
(* the result is stored returns and leaves the exception to be rethrown    *)
(* later.                                                                  *)
(***************************************************************************)
Rethrown == {k \in 1..Len(owner_calls) : owner_calls[k].how = "rethrown"}

SurfacedOnce ==
    /\ Cardinality(Rethrown) <= 1
    /\ shared_state # "exception" => Rethrown = {}
    /\ m_future = "valid" =>
          \A k \in 1..Len(owner_calls) : owner_calls[k] = OwnerCall("check", "returned")
    /\ (m_future = "invalid" /\ shared_state = "exception") => Cardinality(Rethrown) = 1
    /\ \A k \in Rethrown :
          \A j \in 1..(k - 1) : owner_calls[j] = OwnerCall("check", "returned")

\* the call that finishes in this step, if one does
Finishes(call) == owner_calls' = Append(owner_calls, call)

SurfacingStep ==
    \A op \in {"check", "close"}, how \in {"returned", "rethrown"} :
        Finishes(OwnerCall(op, how)) =>
            IF op = "check" /\ shared_state = "pending"
            THEN /\ how = "returned"
                 /\ m_future' = m_future
                 /\ shared_state' = shared_state
            ELSE /\ m_future' = "invalid"
                 /\ how = "rethrown" <=> (m_future = "valid" /\ shared_state = "exception")

C30_FailureSurfacedOnce == []SurfacedOnce /\ [][SurfacingStep]_vars

\* a check made while the task ran returned, the next check rethrew the
\* exception of the task, and the close after it returned
C30_Witness ==
    owner_calls = <<OwnerCall("check", "returned"), OwnerCall("check", "rethrown"),
                    OwnerCall("close", "returned")>>

(***************************************************************************)
(* C31.  Under fair scheduling a close or a destructor that is under way   *)
(* when T::operator() has come to an end, by returning or by throwing,     *)
(* finishes; while T::operator() runs, no close and no destructor          *)
(* finishes or gets any further.                                           *)
(***************************************************************************)
InCloseOrDestructor == owner \in {"close_get", "close_join", "destructor"}

CallableTerminated == worker # "running"

BlockedWhileRunning ==
    (InCloseOrDestructor /\ ~CallableTerminated) =>
        /\ owner' = owner
        /\ owner_calls' = owner_calls
        /\ m_thread' = m_thread
        /\ m_future' = m_future

C31_CloseAndDestructorFinish ==
    /\ (InCloseOrDestructor /\ CallableTerminated) ~> ~InCloseOrDestructor
    /\ [](InCloseOrDestructor /\ ~CallableTerminated => ~ENABLED (CloseGets \/ CloseJoins \/ DestructorJoins))
    /\ [][BlockedWhileRunning]_vars

\* a close that waited for the task has returned and the destructor after
\* it has finished
C31_Witness ==
    /\ owner = "destroyed"
    /\ worker = "exited"
    /\ owner_calls = <<OwnerCall("close", "returned")>>
    /\ m_thread = "joined"

(***************************************************************************)
(* C32.  Ring building conserves the segments: after each turn of the loop *)
(* of stage2 over the prepared segment list, the rings of the ring list    *)
(* together hold the segments taken from the list so far, each of them     *)
(* once and in one ring, whichever way round it was put.                   *)
(***************************************************************************)
\* a segment whichever way round it is
Unoriented(s) == [ends |-> {s.first, s.second}, role |-> s.role, way |-> s.way]

SegmentsOfRings(rings) == Flatten([i \in 1..Len(rings) |-> rings[i].segments])

TimesIn(segs, u) == Cardinality({k \in 1..Len(segs) : Unoriented(segs[k]) = u})

SameSegments(taken, held) ==
    /\ Len(taken) = Len(held)
    /\ \A k \in 1..Len(taken) :
          TimesIn(held, Unoriented(taken[k])) = TimesIn(taken, Unoriented(taken[k]))

C32_SegmentsConserved ==
    pc = "rings" =>
        SameSegments(SubSeq(m_segment_list, 1, pos - 1), SegmentsOfRings(m_rings))

\* all segments of a list of five or more have been taken and are held by
\* two or more rings
C32_Witness ==
    /\ pc = "rings"
    /\ pos = Len(m_segment_list) + 1
    /\ pos > 5
    /\ Len(m_rings) >= 2

(***************************************************************************)
(* C33.  After a stage2 that returned true every ring of the ring list is  *)
(* written to the area once: each ring is in one of m_outer_rings and      *)
(* m_inner_rings and not in both, and each ring of m_inner_rings is an     *)
(* inner ring of one outer ring, once.                                     *)
(***************************************************************************)
TimesListed(idx, i) == Cardinality({k \in 1..Len(idx) : idx[k] = i})

\* how often ring i is an inner ring of a ring of m_outer_rings
TimesAttached(i) ==
    Cardinality({km \in UNION {{<<k, m>> : m \in 1..Len(m_rings[m_outer_rings[k]].inner)} :
                                  k \in 1..Len(m_outer_rings)} :
                    m_rings[m_outer_rings[km[1]]].inner[km[2]] = i})

InOneList(i) == TimesListed(m_outer_rings, i) + TimesListed(m_inner_rings, i) = 1

AttachedOnce(i) == TimesListed(m_inner_rings, i) = 1 => TimesAttached(i) = 1

C33_EveryRingWrittenOnce ==
    pc = "emit" => \A i \in 1..Len(m_rings) : InOneList(i) /\ AttachedOnce(i)

\* the part about the two lists alone
RingsInOneListOnly ==
    pc = "emit" => \A i \in 1..Len(m_rings) : InOneList(i)

(***************************************************************************)
(* C34.  The problem reporter has no influence on the result: an assembler *)
(* built without a reporter and one built with a reporter write the same   *)
(* areas to their buffers for the same source, and their stage2 returns    *)
(* the same value.                                                         *)
(***************************************************************************)
BothReturned == pc = "done" /\ Len(history) = 1 /\ schedule = <<>>

C34_ReporterHasNoInfluence ==
    BothReturned =>
        /\ history[1].input = input
        /\ history[1].reporter # m_problem_reporter
        /\ history[1].out_buffer = out_buffer
        /\ history[1].stage2_ret = stage2_ret

\* both assemblers have written the areas of a relation and of an inner
\* way of it, and only the one with the reporter has made reports
C34_Witness ==
    /\ BothReturned
    /\ Len(out_buffer) >= 2
    /\ stage2_ret = "true"
    /\ (history[1].reports = <<>>) # (reports = <<>>)

(***************************************************************************)
(* C35.  Applied to an empty stream, apply calls nothing on any handler:   *)
(* no init, no done, no before_ or after_ callback and no item callback,   *)
(* and it returns.                                                         *)
(***************************************************************************)
C35_EmptyStreamNoCallbacks ==
    stream = <<>> =>
        /\ handler_calls = <<>>
        /\ apply_pc \in {"loop", "returned"}
        /\ last_type = "undefined"

\* apply has returned from an empty stream
C35_Witness ==
    /\ stream = <<>>
    /\ apply_pc = "returned"
    /\ \A h \in 1..NumHandlers : CallsOf(h) = <<>>

====
